---- MODULE Spec2Model ----
(***************************************************************************)
(* A model of nano-banana-cli's local image pipeline: the transform        *)
(* engine (crop, resize, rotate, flip, flop), the chroma-key pass and the  *)
(* composition engine, together with the output file each of them writes.  *)
(*                                                                         *)
(* A string the program parses (a crop or resize spec, a colour) is a      *)
(* sequence of one-character strings; a string the program only compares   *)
(* (fit, align, direction) is a TLA+ string.  A raster is a record         *)
(* [w, h, px] whose px maps <<x, y>> to the pixel at that place.           *)
(***************************************************************************)
EXTENDS Integers, Sequences, FiniteSets, TLC

VARIABLES
    cmd,      \* the command being run: "transform", "resize", "chroma", "combine"
    pc,       \* the position inside the command's run function
    opts,     \* the options record built from the flags
    last,     \* the flag the command line gave last ("" when none was given);
              \* for an inspection, what the run before it reported
    src,      \* the decoded input raster(s)
    result,   \* the raster under construction
    err,      \* the error returned ("" while there is none)
    fs        \* the output path: [out: what the file holds, dir: its directory exists]

vars == <<cmd, pc, opts, last, src, result, err, fs>>

----------------------------------------------------------------------------
(* Bounds of the model. *)

\* Largest width and height of an input raster of the transform pipeline.
MaxDim == 2
\* Largest width and height of an input raster and of a target box when
\* applyResize is explored on its own.
MaxBox == 4

----------------------------------------------------------------------------
(* Integer helpers. *)

Min(a, b) == IF a <= b THEN a ELSE b
Max(a, b) == IF a >= b THEN a ELSE b
Abs(a) == IF a >= 0 THEN a ELSE -a

\* Go's integer division truncates toward zero.
GoDiv(a, b) == IF a >= 0 THEN a \div b ELSE -((-a) \div b)

\* The quotient a / b of naturals rounded to the nearest integer, halves
\* upward: math.Floor(a/b + 0.5).
RoundDiv(a, b) == (2 * a + b) \div (2 * b)

----------------------------------------------------------------------------
(* Strings as character sequences: strings.Split, strings.TrimSpace,       *)
(* strconv.Atoi.                                                           *)

Digits == <<"0", "1", "2", "3", "4", "5", "6", "7", "8", "9">>
IsDigit(c) == \E d \in 1..10 : Digits[d] = c
DigitVal(c) == (CHOOSE d \in 1..10 : Digits[d] = c) - 1

Uppers == <<"A", "B", "C", "D", "E", "F", "G", "H", "I", "J", "K", "L", "M", "N", "O", "P", "Q", "R", "S", "T", "U", "V", "W", "X", "Y", "Z">>
Lowers == <<"a", "b", "c", "d", "e", "f", "g", "h", "i", "j", "k", "l", "m", "n", "o", "p", "q", "r", "s", "t", "u", "v", "w", "x", "y", "z">>

\* strings.ToLower, character by character.
LowerChar(c) ==
    IF \E k \in 1..26 : Uppers[k] = c
    THEN Lowers[CHOOSE k \in 1..26 : Uppers[k] = c]
    ELSE c
ToLower(s) == [i \in 1..Len(s) |-> LowerChar(s[i])]

HexDigits == <<"0", "1", "2", "3", "4", "5", "6", "7", "8", "9", "a", "b", "c", "d", "e", "f">>
IsHexDigit(c) == \E d \in 1..16 : HexDigits[d] = LowerChar(c)
HexVal(c) == (CHOOSE d \in 1..16 : HexDigits[d] = LowerChar(c)) - 1

\* strconv.ParseUint(s, 16, 8): hexadecimal digits only, no sign, at most 255.
ParseHexByte(s) ==
    IF s = <<>> \/ \E i \in 1..Len(s) : ~IsHexDigit(s[i])
    THEN [ok |-> FALSE, val |-> 0]
    ELSE LET v == IF Len(s) = 1 THEN HexVal(s[1])
                  ELSE 16 * HexVal(s[Len(s) - 1]) + HexVal(s[Len(s)])
             high == \E i \in 1..(Len(s) - 2) : s[i] # "0"
         IN  IF high THEN [ok |-> FALSE, val |-> 0] ELSE [ok |-> TRUE, val |-> v]

RECURSIVE IndexOf(_, _, _)
\* The least index >= i of character c in s, 0 when there is none.
IndexOf(s, c, i) ==
    IF i > Len(s) THEN 0
    ELSE IF s[i] = c THEN i
    ELSE IndexOf(s, c, i + 1)

RECURSIVE Split(_, _)
\* strings.Split(s, sep) for a one-character separator.
Split(s, sep) ==
    LET k == IndexOf(s, sep, 1) IN
    IF k = 0 THEN <<s>>
    ELSE <<SubSeq(s, 1, k - 1)>> \o Split(SubSeq(s, k + 1, Len(s)), sep)

RECURSIVE TrimLeft(_)
TrimLeft(s) == IF s # <<>> /\ Head(s) = " " THEN TrimLeft(Tail(s)) ELSE s

RECURSIVE TrimRight(_)
TrimRight(s) ==
    IF s # <<>> /\ s[Len(s)] = " " THEN TrimRight(SubSeq(s, 1, Len(s) - 1)) ELSE s

TrimSpace(s) == TrimRight(TrimLeft(s))

RECURSIVE DigitsValue(_, _)
DigitsValue(s, acc) ==
    IF s = <<>> THEN acc ELSE DigitsValue(Tail(s), 10 * acc + DigitVal(Head(s)))

\* strconv.Atoi: an optional sign and then one or more decimal digits.
Atoi(s) ==
    LET signed == s # <<>> /\ Head(s) \in {"+", "-"}
        body == IF signed THEN Tail(s) ELSE s
        good == body # <<>> /\ \A i \in 1..Len(body) : IsDigit(body[i])
    IN  IF ~good THEN [ok |-> FALSE, val |-> 0]
        ELSE [ok |-> TRUE,
              val |-> IF signed /\ Head(s) = "-" THEN -DigitsValue(body, 0)
                      ELSE DigitsValue(body, 0)]

----------------------------------------------------------------------------
(* Rasters and the imaging library's operations on them.                   *)

\* The pixel positions <<x, y>> of a w x h raster.
Grid(w, h) == (0..(w - 1)) \X (0..(h - 1))

\* A raster of w x h pixels whose pixels are the function px on Grid(w, h).
MkImage(w, h, px) == [w |-> w, h |-> h, px |-> px]

\* The zero-size raster the library returns for a request it cannot serve.
EmptyImage == MkImage(0, 0, [p \in Grid(0, 0) |-> 0])

\* A decoded w x h input: every pixel is distinct (its row-major index).
SourceImage(w, h) == MkImage(w, h, [p \in Grid(w, h) |-> p[2] * w + p[1]])

\* image.Rect: a well-formed rectangle, corners swapped where needed.
Rect(x0, y0, x1, y1) ==
    [minX |-> Min(x0, x1), minY |-> Min(y0, y1),
     maxX |-> Max(x0, x1), maxY |-> Max(y0, y1)]

RectEmpty(r) == r.minX >= r.maxX \/ r.minY >= r.maxY

\* Rectangle.Intersect: the zero rectangle when the two do not overlap.
Intersect(r, s) ==
    LET t == [minX |-> Max(r.minX, s.minX), minY |-> Max(r.minY, s.minY),
              maxX |-> Min(r.maxX, s.maxX), maxY |-> Min(r.maxY, s.maxY)]
    IN  IF RectEmpty(t) THEN Rect(0, 0, 0, 0) ELSE t

Bounds(img) == Rect(0, 0, img.w, img.h)

\* imaging.Crop: the part of img inside rect, empty when they do not meet.
Crop(img, rect) ==
    LET r == Intersect(rect, Bounds(img)) IN
    IF RectEmpty(r) THEN EmptyImage
    ELSE MkImage(r.maxX - r.minX, r.maxY - r.minY,
                 [p \in Grid(r.maxX - r.minX, r.maxY - r.minY) |->
                     img.px[<<r.minX + p[1], r.minY + p[2]>>]])

\* imaging.CropAnchor with the Center anchor.
CropCenter(img, width, height) ==
    LET x0 == GoDiv(img.w - width, 2)
        y0 == GoDiv(img.h - height, 2)
        r == Intersect(Rect(x0, y0, x0 + width, y0 + height), Bounds(img))
    IN  Crop(img, r)

\* imaging.Resize.  A zero width or height is derived from the other one so
\* that the aspect ratio is kept, with a minimum of one pixel.  A resampled
\* pixel is identified by the source pixel under its centre; the weights of
\* the Lanczos kernel are not part of the model.
Resize(img, width, height) ==
    IF width < 0 \/ height < 0 THEN EmptyImage
    ELSE IF width = 0 /\ height = 0 THEN EmptyImage
    ELSE IF img.w <= 0 \/ img.h <= 0 THEN EmptyImage
    ELSE
      LET dstW == IF width = 0
                  THEN Max(1, RoundDiv(height * img.w, img.h))
                  ELSE width
          dstH == IF height = 0
                  THEN Max(1, RoundDiv(dstW * img.h, img.w))
                  ELSE height
      IN  IF dstW = img.w /\ dstH = img.h THEN img
          ELSE MkImage(dstW, dstH,
                  [p \in Grid(dstW, dstH) |->
                      img.px[<<((2 * p[1] + 1) * img.w) \div (2 * dstW),
                               ((2 * p[2] + 1) * img.h) \div (2 * dstH)>>]])

\* imaging.Fit: scale down to fit the box, keeping the aspect ratio; a raster
\* that already fits is returned as it is.
Fit(img, width, height) ==
    IF width <= 0 \/ height <= 0 THEN EmptyImage
    ELSE IF img.w <= 0 \/ img.h <= 0 THEN EmptyImage
    ELSE IF img.w <= width /\ img.h <= height THEN img
    ELSE IF img.w * height > width * img.h
         THEN Resize(img, width, (width * img.h) \div img.w)
         ELSE Resize(img, (height * img.w) \div img.h, height)

\* Fill without the crop: the raster is scaled to cover the box and the
\* overflow is kept.
FillKeepOverflow(img, width, height) ==
    IF width <= 0 \/ height <= 0 THEN EmptyImage
    ELSE IF img.w <= 0 \/ img.h <= 0 THEN EmptyImage
    ELSE IF img.w * height < width * img.h
         THEN Resize(img, width, 0)
         ELSE Resize(img, 0, height)

\* imaging.Fill with the Center anchor: cover the box and crop the overflow.
\* A raster of at least 100 x 100 is cropped and then resized, a smaller one
\* is resized and then cropped.
Fill(img, width, height) ==
    IF width <= 0 \/ height <= 0 THEN EmptyImage
    ELSE IF img.w <= 0 \/ img.h <= 0 THEN EmptyImage
    ELSE IF img.w = width /\ img.h = height THEN img
    ELSE IF img.w >= 100 /\ img.h >= 100
         THEN IF img.w * height < width * img.h
              THEN Resize(CropCenter(img, img.w,
                                     Max(1, RoundDiv(img.w * height, width))),
                          width, height)
              ELSE Resize(CropCenter(img,
                                     Max(1, RoundDiv(img.h * width, height)),
                                     img.h),
                          width, height)
         ELSE IF img.w * height < width * img.h
              THEN CropCenter(Resize(img, width, 0), width, height)
              ELSE CropCenter(Resize(img, 0, height), width, height)

\* imaging.Rotate for the angles the library turns exactly (multiples of 90
\* degrees, counter-clockwise); the angle is first reduced modulo 360.
Rotate(img, angle) ==
    LET a == angle % 360 IN
    CASE a = 0   -> img
      [] a = 90  -> MkImage(img.h, img.w,
                            [p \in Grid(img.h, img.w) |-> img.px[<<img.w - 1 - p[2], p[1]>>]])
      [] a = 180 -> MkImage(img.w, img.h,
                            [p \in Grid(img.w, img.h) |->
                                img.px[<<img.w - 1 - p[1], img.h - 1 - p[2]>>]])
      [] a = 270 -> MkImage(img.h, img.w,
                            [p \in Grid(img.h, img.w) |-> img.px[<<p[2], img.h - 1 - p[1]>>]])

\* imaging.FlipV: top and bottom exchanged.
FlipV(img) ==
    MkImage(img.w, img.h, [p \in Grid(img.w, img.h) |-> img.px[<<p[1], img.h - 1 - p[2]>>]])

\* imaging.FlipH: left and right exchanged.
FlipH(img) ==
    MkImage(img.w, img.h, [p \in Grid(img.w, img.h) |-> img.px[<<img.w - 1 - p[1], p[2]>>]])

----------------------------------------------------------------------------
(* The transform engine: applyCrop, applyResize and Transform.             *)

\* RatioGT with the comparison turned round: n1/d1 < n2/d2.
RatioLT(n1, d1, n2, d2) ==
    IF d1 = 0 \/ d2 = 0 THEN FALSE
    ELSE IF (d1 > 0) = (d2 > 0) THEN n1 * d2 < n2 * d1
    ELSE n1 * d2 > n2 * d1

\* The float64 comparison n1/d1 > n2/d2, with a zero denominator giving an
\* infinity (or NaN for 0/0, which compares false with everything).
RatioGT(n1, d1, n2, d2) ==
    IF (d1 = 0 /\ n1 = 0) \/ (d2 = 0 /\ n2 = 0) THEN FALSE
    ELSE IF d1 = 0 THEN n1 > 0 /\ ~(d2 = 0 /\ n2 > 0)
    ELSE IF d2 = 0 THEN n2 < 0
    ELSE IF (d1 > 0) = (d2 > 0) THEN n1 * d2 > n2 * d1
    ELSE n1 * d2 < n2 * d1

Failure(msg) == [ok |-> FALSE, img |-> EmptyImage, msg |-> msg]
Success(img) == [ok |-> TRUE, img |-> img, msg |-> ""]

\* applyCrop: "left,top,width,height" to the rectangle handed to imaging.Crop.
applyCrop(img, cropSpec) ==
    LET parts == Split(cropSpec, ",") IN
    IF Len(parts) # 4 THEN Failure("invalid crop format")
    ELSE
      LET left == Atoi(TrimSpace(parts[1]))
          top == Atoi(TrimSpace(parts[2]))
          width == Atoi(TrimSpace(parts[3]))
          height == Atoi(TrimSpace(parts[4]))
      IN  IF ~left.ok THEN Failure("invalid left value")
          ELSE IF ~top.ok THEN Failure("invalid top value")
          ELSE IF ~width.ok THEN Failure("invalid width value")
          ELSE IF ~height.ok THEN Failure("invalid height value")
          ELSE Success(Crop(img, Rect(left.val, top.val,
                                      left.val + width.val, top.val + height.val)))

\* applyFit with an unknown fit mode treated like the default one.
applyFitLenient(img, width, height, fit) ==
    CASE fit = "fill" -> Success(Resize(img, width, height))
      [] fit = "cover" -> Success(Fill(img, width, height))
      [] fit = "outside" ->
            IF RatioGT(img.w, img.h, width, height)
            THEN Success(Resize(img, 0, height))
            ELSE Success(Resize(img, width, 0))
      [] OTHER -> Success(Fit(img, width, height))

\* applyFit with contain and inside stretching to the box like fill.
applyFitStretch(img, width, height, fit) ==
    CASE fit \in {"fill", "contain", "inside", ""} -> Success(Resize(img, width, height))
      [] fit = "cover" -> Success(Fill(img, width, height))
      [] fit = "outside" ->
            IF RatioGT(img.w, img.h, width, height)
            THEN Success(Resize(img, 0, height))
            ELSE Success(Resize(img, width, 0))
      [] OTHER -> Failure("invalid fit mode")

\* The fit switch of applyResize, given the parsed target width and height.
applyFit(img, width, height, fit) ==
    CASE fit = "fill" -> Success(Resize(img, width, height))
      [] fit = "contain" -> Success(Fit(img, width, height))
      [] fit = "cover" -> Success(Fill(img, width, height))
      [] fit \in {"inside", ""} -> Success(Fit(img, width, height))
      [] fit = "outside" ->
            IF RatioGT(img.w, img.h, width, height)
            THEN Success(Resize(img, 0, height))
            ELSE Success(Resize(img, width, 0))
      [] OTHER -> Failure("invalid fit mode")

\* applyResize: "WxH" or "P%" (P a whole number here) and the fit mode.
applyResize(img, sizeSpec, fit) ==
    IF sizeSpec # <<>> /\ sizeSpec[Len(sizeSpec)] = "%"
    THEN LET pct == Atoi(SubSeq(sizeSpec, 1, Len(sizeSpec) - 1)) IN
         IF ~pct.ok THEN Failure("invalid percentage")
         ELSE applyFit(img, GoDiv(img.w * pct.val, 100),
                       GoDiv(img.h * pct.val, 100), fit)
    ELSE LET parts == Split(ToLower(sizeSpec), "x") IN
         IF Len(parts) # 2 THEN Failure("invalid size format")
         ELSE LET width == Atoi(TrimSpace(parts[1]))
                  height == Atoi(TrimSpace(parts[2]))
              IN  IF ~width.ok THEN Failure("invalid width")
                  ELSE IF ~height.ok THEN Failure("invalid height")
                  ELSE applyFit(img, width.val, height.val, fit)

\* The flag defaults of the transform command.
TransformDefaults ==
    [Resize |-> <<>>, Fit |-> "inside", Crop |-> <<>>,
     Rotate |-> 0, Flip |-> FALSE, Flop |-> FALSE]

\* The values a flag is given in the model.
CropVals == { <<"0", ",", "0", ",", "1", ",", "2">>,
              <<"1", ",", "0", ",", "1", ",", "1">> }
ResizeVals == { <<"1", "x", "2">>, <<"5", "0", "%">> }
FitVals == {"fill", "contain", "cover", "outside", "", "stretch"}
RotateVals == {90, -90}

\* The input rasters of the transform pipeline.
SrcSizes == (1..MaxDim) \X (1..MaxDim)

\* The states of the output path before the command runs.
FsStates == { [out |-> "absent", dir |-> FALSE],
              [out |-> "old", dir |-> TRUE] }

InitTransform ==
    /\ cmd = "transform"
    /\ pc = "flags"
    /\ opts = TransformDefaults
    /\ last = ""
    /\ \E d \in SrcSizes : src = SourceImage(d[1], d[2])
    /\ result = EmptyImage
    /\ err = ""
    /\ fs \in FsStates

\* cobra parses the flags in the order of the command line; each one sets
\* its package-level variable.
ParseFlag ==
    /\ cmd = "transform"
    /\ pc = "flags"
    /\ \/ /\ opts.Crop = <<>>
          /\ \E v \in CropVals : opts' = [opts EXCEPT !.Crop = v]
          /\ last' = "crop"
       \/ /\ opts.Resize = <<>>
          /\ \E v \in ResizeVals : opts' = [opts EXCEPT !.Resize = v]
          /\ last' = "resize"
       \/ /\ opts.Fit = "inside"
          /\ \E v \in FitVals : opts' = [opts EXCEPT !.Fit = v]
          /\ last' = "fit"
       \/ /\ opts.Rotate = 0
          /\ \E v \in RotateVals : opts' = [opts EXCEPT !.Rotate = v]
          /\ last' = "rotate"
       \/ /\ ~opts.Flip
          /\ opts' = [opts EXCEPT !.Flip = TRUE]
          /\ last' = "flip"
       \/ /\ ~opts.Flop
          /\ opts' = [opts EXCEPT !.Flop = TRUE]
          /\ last' = "flop"
    /\ UNCHANGED <<cmd, pc, src, result, err, fs>>

\* runTransform without its test for a missing operation.
RunTransformAnyRequest ==
    /\ cmd = "transform"
    /\ pc = "flags"
    /\ \E exists \in BOOLEAN :
         IF ~exists
         THEN pc' = "failed" /\ err' = "FILE_NOT_FOUND"
         ELSE IF opts.Rotate < -360 \/ opts.Rotate > 360
         THEN pc' = "failed" /\ err' = "INVALID_ROTATION"
         ELSE pc' = "open" /\ err' = ""
    /\ UNCHANGED <<cmd, opts, last, src, result, fs>>

\* runTransform up to its call of image.Transform: the input must exist, an
\* operation must be requested and the rotation must be in range.
RunTransform ==
    /\ cmd = "transform"
    /\ pc = "flags"
    /\ \E exists \in BOOLEAN :
         IF ~exists
         THEN pc' = "failed" /\ err' = "FILE_NOT_FOUND"
         ELSE IF opts.Resize = <<>> /\ opts.Crop = <<>> /\ opts.Rotate = 0
                 /\ ~opts.Flip /\ ~opts.Flop
         THEN pc' = "failed" /\ err' = "NO_OPERATION"
         ELSE IF opts.Rotate < -360 \/ opts.Rotate > 360
         THEN pc' = "failed" /\ err' = "INVALID_ROTATION"
         ELSE pc' = "open" /\ err' = ""
    /\ UNCHANGED <<cmd, opts, last, src, result, fs>>

\* StageAfter with the rotation moved behind the vertical flip.
StageAfterRotateLate(s) ==
    CASE s = "open" -> "crop"
      [] s = "crop" -> "resize"
      [] s = "resize" -> "flip"
      [] s = "flip" -> "rotate"
      [] s = "rotate" -> "flop"
      [] s = "flop" -> "mkdir"
      [] s = "mkdir" -> "save"
      [] s = "save" -> "done"

\* The stage of Transform that follows stage s.
StageAfter(s) ==
    CASE s = "open" -> "crop"
      [] s = "crop" -> "resize"
      [] s = "resize" -> "rotate"
      [] s = "rotate" -> "flip"
      [] s = "flip" -> "flop"
      [] s = "flop" -> "mkdir"
      [] s = "mkdir" -> "save"
      [] s = "save" -> "done"

\* imaging.Open: the file decodes to src, or the call fails.
OpenStep ==
    /\ cmd = "transform"
    /\ pc = "open"
    /\ \/ /\ result' = src
          /\ pc' = StageAfter("open")
          /\ err' = ""
       \/ /\ result' = result
          /\ pc' = "failed"
          /\ err' = "failed to open image"
    /\ UNCHANGED <<cmd, opts, last, src, fs>>

\* 1. Crop
CropStep ==
    /\ cmd = "transform"
    /\ pc = "crop"
    /\ IF opts.Crop # <<>>
       THEN LET r == applyCrop(result, opts.Crop) IN
            IF r.ok
            THEN result' = r.img /\ pc' = StageAfter("crop") /\ err' = ""
            ELSE result' = result /\ pc' = "failed" /\ err' = "crop failed"
       ELSE result' = result /\ pc' = StageAfter("crop") /\ err' = ""
    /\ UNCHANGED <<cmd, opts, last, src, fs>>

\* 2. Resize
ResizeStep ==
    /\ cmd = "transform"
    /\ pc = "resize"
    /\ IF opts.Resize # <<>>
       THEN LET r == applyResize(result, opts.Resize, opts.Fit) IN
            IF r.ok
            THEN result' = r.img /\ pc' = StageAfter("resize") /\ err' = ""
            ELSE result' = result /\ pc' = "failed" /\ err' = "resize failed"
       ELSE result' = result /\ pc' = StageAfter("resize") /\ err' = ""
    /\ UNCHANGED <<cmd, opts, last, src, fs>>

\* 3. Rotate
RotateStep ==
    /\ cmd = "transform"
    /\ pc = "rotate"
    /\ result' = IF opts.Rotate # 0 THEN Rotate(result, opts.Rotate) ELSE result
    /\ pc' = StageAfter("rotate")
    /\ UNCHANGED <<cmd, opts, last, src, err, fs>>

\* 4. Flip (vertical)
FlipStep ==
    /\ cmd = "transform"
    /\ pc = "flip"
    /\ result' = IF opts.Flip THEN FlipV(result) ELSE result
    /\ pc' = StageAfter("flip")
    /\ UNCHANGED <<cmd, opts, last, src, err, fs>>

\* 5. Flop (horizontal)
FlopStep ==
    /\ cmd = "transform"
    /\ pc = "flop"
    /\ result' = IF opts.Flop THEN FlipH(result) ELSE result
    /\ pc' = StageAfter("flop")
    /\ UNCHANGED <<cmd, opts, last, src, err, fs>>

\* os.MkdirAll on the output directory: it exists afterwards, or the call
\* fails and nothing changes.
MkdirStep ==
    /\ pc = "mkdir"
    /\ \/ /\ fs' = [fs EXCEPT !.dir = TRUE]
          /\ pc' = IF cmd = "transform" THEN StageAfter("mkdir") ELSE "create"
          /\ err' = ""
       \/ /\ ~fs.dir
          /\ fs' = fs
          /\ pc' = "failed"
          /\ err' = "failed to create directory"
    /\ UNCHANGED <<cmd, opts, last, src, result>>

\* imaging.Save: create the file, then encode; a raster without pixels does
\* not encode, and a write can fail.
SaveStep ==
    /\ cmd = "transform"
    /\ pc = "save"
    /\ \/ /\ fs' = fs
          /\ pc' = "failed"
          /\ err' = "failed to save image"
       \/ /\ result.w > 0 /\ result.h > 0
          /\ fs' = [fs EXCEPT !.out = "new"]
          /\ pc' = StageAfter("save")
          /\ err' = ""
       \/ /\ fs' = [fs EXCEPT !.out = "partial"]
          /\ pc' = "failed"
          /\ err' = "failed to save image"
    /\ UNCHANGED <<cmd, opts, last, src, result>>

NextTransform ==
    \/ ParseFlag
    \/ RunTransform
    \/ OpenStep
    \/ CropStep
    \/ ResizeStep
    \/ RotateStep
    \/ FlipStep
    \/ FlopStep
    \/ MkdirStep
    \/ SaveStep

SpecTransform == InitTransform /\ [][NextTransform]_vars

----------------------------------------------------------------------------
(* applyResize on its own: every input size against every target box.      *)

\* The size specs explored: "WxH" for a box of up to MaxBox x MaxBox, and
\* three percentages.
BoxSpecs == { <<Digits[w + 1], "x", Digits[h + 1]>> : w \in 1..MaxBox, h \in 1..MaxBox }
PctSpecs == { <<"5", "0", "%">>, <<"1", "0", "0", "%">>, <<"2", "0", "0", "%">> }
AllFits == FitVals \cup {"inside"}

\* Input sizes on the far side of the library's switch between its two ways
\* of covering a box (both sides of at least 100 pixels).
LargeSizes == { <<100, 100>>, <<101, 100>>, <<100, 102>> }

\* The crop regions of the requests that crop and then cover a box.
CoverCrops == { <<"0", ",", "0", ",", "1", ",", "2">>,
                <<"1", ",", "0", ",", "3", ",", "1">>,
                <<"0", ",", "1", ",", "2", ",", "3">>,
                <<"1", ",", "1", ",", "2", ",", "2">> }

\* The icon sizes requested (runIcon accepts 16 to 2048).
IconSizeVals == {16, 17, 33}

RECURSIVE Itoa(_)
\* strconv.Itoa and the %d verb, for a natural number.
Itoa(n) == IF n < 10 THEN <<Digits[n + 1]>> ELSE Itoa(n \div 10) \o <<Digits[(n % 10) + 1]>>

\* The options runIcon hands to Transform for one size.
IconOptions(size) ==
    [Resize |-> Itoa(size) \o <<"x">> \o Itoa(size), Fit |-> "cover", Crop |-> <<>>,
     Rotate |-> 0, Flip |-> FALSE, Flop |-> FALSE]

InitResize ==
    /\ cmd = "resize"
    /\ pc = "start"
    /\ opts = TransformDefaults
    /\ last = ""
    /\ \E d \in ((1..MaxBox) \X (1..MaxBox)) \cup LargeSizes : src = SourceImage(d[1], d[2])
    /\ result = EmptyImage
    /\ err = ""
    /\ fs = [out |-> "absent", dir |-> FALSE]

\* One call of applyResize(src, sizeSpec, fit).
ApplyResize ==
    /\ cmd = "resize"
    /\ pc = "start"
    /\ \E sizeSpec \in BoxSpecs \cup PctSpecs, fit \in AllFits :
         LET r == applyResize(src, sizeSpec, fit) IN
         /\ opts' = [opts EXCEPT !.Resize = sizeSpec, !.Fit = fit]
         /\ result' = r.img
         /\ pc' = IF r.ok THEN "resized" ELSE "failed"
         /\ err' = IF r.ok THEN "" ELSE "resize failed"
    /\ UNCHANGED <<cmd, last, src, fs>>

\* Transform with a crop and a cover resize and nothing else: stages 1 and 2.
CoverAfterCrop ==
    /\ cmd = "resize"
    /\ pc = "start"
    /\ \E cropSpec \in CoverCrops, sizeSpec \in BoxSpecs :
         LET c == applyCrop(src, cropSpec)
             r == applyResize(c.img, sizeSpec, "cover")
         IN  /\ opts' = [opts EXCEPT !.Crop = cropSpec, !.Resize = sizeSpec, !.Fit = "cover"]
             /\ result' = r.img
             /\ pc' = IF c.ok /\ r.ok THEN "covered" ELSE "failed"
             /\ err' = IF ~c.ok THEN "crop failed"
                       ELSE IF ~r.ok THEN "resize failed" ELSE ""
    /\ UNCHANGED <<cmd, last, src, fs>>

\* One turn of runIcon's loop: Transform of the base image with the options
\* of one size, of which only the resize stage is set.
IconResize ==
    /\ cmd = "resize"
    /\ pc = "start"
    /\ \E size \in IconSizeVals :
         LET o == IconOptions(size)
             r == applyResize(src, o.Resize, o.Fit)
         IN  /\ opts' = o
             /\ result' = r.img
             /\ pc' = IF r.ok THEN "icon" ELSE "failed"
             /\ err' = IF r.ok THEN "" ELSE "resize failed"
    /\ UNCHANGED <<cmd, last, src, fs>>

NextResize ==
    \/ ApplyResize
    \/ CoverAfterCrop
    \/ IconResize

SpecResize == InitResize /\ [][NextResize]_vars

----------------------------------------------------------------------------
(* Claims about the transform engine.                                      *)

\* The raster the fixed order crop, resize, rotate, flip, flop makes of img,
\* an unset operation leaving its input as it is.
Cropped(img, o) == IF o.Crop # <<>> THEN applyCrop(img, o.Crop).img ELSE img
Resized(img, o) == IF o.Resize # <<>> THEN applyResize(img, o.Resize, o.Fit).img ELSE img
Rotated(img, o) == IF o.Rotate # 0 THEN Rotate(img, o.Rotate) ELSE img
Flipped(img, o) == IF o.Flip THEN FlipV(img) ELSE img
Flopped(img, o) == IF o.Flop THEN FlipH(img) ELSE img
InFixedOrder(img, o) ==
    Flopped(Flipped(Rotated(Resized(Cropped(img, o), o), o), o), o)

C1_Final ==
    (cmd = "transform" /\ pc \in {"mkdir", "save", "done"})
        => result = InFixedOrder(src, opts)

C1_SkipStep ==
    (cmd = "transform" /\
       \/ pc = "crop" /\ opts.Crop = <<>>
       \/ pc = "resize" /\ opts.Resize = <<>>
       \/ pc = "rotate" /\ opts.Rotate = 0
       \/ pc = "flip" /\ ~opts.Flip
       \/ pc = "flop" /\ ~opts.Flop)
        => result' = result

\* C1: whatever order the flags came in, the raster Transform saves is the
\* input cropped, then resized, then rotated, then flipped, then flopped, and
\* a stage whose parameter is unset leaves the intermediate raster unchanged.
C1_FixedOrder == [](C1_Final) /\ [][C1_SkipStep]_vars

\* A finished transform that cropped, rotated and flipped a 2 x 2 input, with
\* --crop given last on the command line.
C1_Witness ==
    /\ cmd = "transform" /\ pc = "done"
    /\ opts.Crop # <<>> /\ opts.Rotate = 90 /\ opts.Flip /\ opts.Resize = <<>>
    /\ last = "crop"
    /\ src.w = 2 /\ src.h = 2
    /\ result = FlipV(Rotate(applyCrop(src, opts.Crop).img, 90))
    /\ result # Rotate(FlipV(applyCrop(src, opts.Crop).img), 90)

----------------------------------------------------------------------------
(* The chroma-key pass: parseColor, colorDistance and MakeTransparent.     *)

RECURSIVE TrimHashes(_)
\* The string without its leading "#" characters, however many.
TrimHashes(s) == IF s # <<>> /\ Head(s) = "#" THEN TrimHashes(Tail(s)) ELSE s

\* parseColor with every leading "#" dropped, not only the first.
parseColorAnyHashes(colorStr) ==
    LET lower == ToLower(colorStr) IN
    IF lower = <<"w", "h", "i", "t", "e">> THEN [ok |-> TRUE, R |-> 255, G |-> 255, B |-> 255]
    ELSE IF lower = <<"b", "l", "a", "c", "k">> THEN [ok |-> TRUE, R |-> 0, G |-> 0, B |-> 0]
    ELSE
      LET hex == TrimHashes(colorStr)
      IN  IF Len(hex) # 6 THEN [ok |-> FALSE, R |-> 0, G |-> 0, B |-> 0]
          ELSE LET r == ParseHexByte(SubSeq(hex, 1, 2))
                   g == ParseHexByte(SubSeq(hex, 3, 4))
                   b == ParseHexByte(SubSeq(hex, 5, 6))
               IN  IF r.ok /\ g.ok /\ b.ok
                   THEN [ok |-> TRUE, R |-> r.val, G |-> g.val, B |-> b.val]
                   ELSE [ok |-> FALSE, R |-> 0, G |-> 0, B |-> 0]

\* parseColor: "white", "black" (in any case), or six hexadecimal digits
\* after one optional "#".
parseColor(colorStr) ==
    LET lower == ToLower(colorStr) IN
    IF lower = <<"w", "h", "i", "t", "e">> THEN [ok |-> TRUE, R |-> 255, G |-> 255, B |-> 255]
    ELSE IF lower = <<"b", "l", "a", "c", "k">> THEN [ok |-> TRUE, R |-> 0, G |-> 0, B |-> 0]
    ELSE
      LET hex == IF colorStr # <<>> /\ Head(colorStr) = "#" THEN Tail(colorStr)
                 ELSE colorStr
      IN  IF Len(hex) # 6 THEN [ok |-> FALSE, R |-> 0, G |-> 0, B |-> 0]
          ELSE LET r == ParseHexByte(SubSeq(hex, 1, 2))
                   g == ParseHexByte(SubSeq(hex, 3, 4))
                   b == ParseHexByte(SubSeq(hex, 5, 6))
               IN  IF r.ok /\ g.ok /\ b.ok
                   THEN [ok |-> TRUE, R |-> r.val, G |-> g.val, B |-> b.val]
                   ELSE [ok |-> FALSE, R |-> 0, G |-> 0, B |-> 0]

\* color.NRGBA.RGBA(): the 16-bit alpha-premultiplied channels of a pixel
\* stored with 8-bit straight (non-premultiplied) channels.  An opaque pixel
\* of a format without alpha has A = 255 and gives the same values.
RGBA16(p) ==
    [r |-> ((p.R * 257) * p.A) \div 255,
     g |-> ((p.G * 257) * p.A) \div 255,
     b |-> ((p.B * 257) * p.A) \div 255,
     a |-> p.A * 257]

\* uint8(v >> 8)
To8(v) == (v \div 256) % 256

\* Three times colorDistance(r, g, b, target): the sum of the squared
\* channel differences, kept whole.
colorDistance3(r, g, b, target) ==
    (r - target.R) * (r - target.R) + (g - target.G) * (g - target.G)
      + (b - target.B) * (b - target.B)

\* colorDistance(r, g, b, target) <= float64(tolerance) / 100.0 * 255.0.
\* Both sides are float64; over 8-bit channels and tolerances 0..100 the
\* comparison agrees with the whole-number one below.
withinTolerance(r, g, b, target, tolerance) ==
    100 * colorDistance3(r, g, b, target) <= 3 * 255 * tolerance

\* The body of MakeTransparent's pixel loop for one source pixel.
keyPixel(p, target, tolerance) ==
    LET c == RGBA16(p)
        r8 == To8(c.r)
        g8 == To8(c.g)
        b8 == To8(c.b)
        a8 == To8(c.a)
    IN  IF withinTolerance(r8, g8, b8, target, tolerance)
        THEN [R |-> r8, G |-> g8, B |-> b8, A |-> 0]
        ELSE [R |-> r8, G |-> g8, B |-> b8, A |-> a8]

\* The colours and alpha values of the source pixels explored.
SampleColours ==
    { <<255, 255, 255>>, <<250, 250, 250>>, <<243, 252, 255>>,
      <<0, 0, 0>>, <<128, 128, 128>>, <<200, 100, 50>> }
SampleAlphas == {0, 128, 255}

\* Largest number of pixels of a chroma-key input.
MaxPixels == 1

PixelsOf(alphas) ==
    { [R |-> c[1], G |-> c[2], B |-> c[3], A |-> a] : c \in SampleColours, a \in alphas }

RECURSIVE SeqsUpTo(_, _)
\* The non-empty sequences over S of length at most n.
SeqsUpTo(S, n) ==
    IF n = 0 THEN {}
    ELSE LET shorter == SeqsUpTo(S, n - 1) IN
         { <<x>> : x \in S } \cup shorter \cup { Append(q, x) : q \in shorter, x \in S }

\* A decoded input: a format with an alpha channel (any alpha value per
\* pixel) or one without (every pixel opaque).
ChromaInputs ==
    { [alpha |-> TRUE, px |-> q] : q \in SeqsUpTo(PixelsOf(SampleAlphas), MaxPixels) }
      \cup { [alpha |-> FALSE, px |-> q] : q \in SeqsUpTo(PixelsOf({255}), MaxPixels) }

\* The values of --color explored: the two names, a name in another case,
\* hexadecimal colours with and without "#", and values that do not parse
\* (a word, two "#", a digit that is not hexadecimal, the empty value).
ColorVals ==
    { <<"w", "h", "i", "t", "e">>, <<"b", "l", "a", "c", "k">>, <<"W", "h", "i", "t", "e">>,
      <<"#", "8", "0", "8", "0", "8", "0">>, <<"C", "8", "6", "4", "3", "2">>,
      <<"r", "e", "d">>, <<"#", "#", "8", "0", "8", "0", "8", "0">>,
      <<"#", "8", "0", "8", "0", "g", "0">>, <<>> }
ToleranceVals == {0, 10, 20, 100}

\* The output path runTransparentMake works out when -o is not given and
\* --overwrite is not set.  The slice inputPath[:len(inputPath)-len(".png")]
\* is evaluated first, and panics when the path has fewer than four
\* characters.
defaultOutputPath(inputPath) ==
    IF Len(inputPath) - 4 < 0
    THEN [panic |-> TRUE, path |-> <<>>]
    ELSE IF SubSeq(inputPath, Len(inputPath) - 3, Len(inputPath)) # <<".", "p", "n", "g">>
    THEN [panic |-> FALSE, path |-> inputPath \o <<"_", "t", "r", "a", "n", "s", "p", "a", "r", "e", "n", "t", ".", "p", "n", "g">>]
    ELSE [panic |-> FALSE, path |-> SubSeq(inputPath, 1, Len(inputPath) - 4) \o <<"_", "t", "r", "a", "n", "s", "p", "a", "r", "e", "n", "t", ".", "p", "n", "g">>]

\* The output path of a transparent make run.
makeOutputPath(o) ==
    IF o.Output # <<>> THEN [panic |-> FALSE, path |-> o.Output]
    ELSE IF o.Overwrite THEN [panic |-> FALSE, path |-> o.Input]
    ELSE defaultOutputPath(o.Input)

InitChroma ==
    /\ cmd = "chroma"
    /\ pc = "start"
    /\ opts \in [Color : ColorVals, Tolerance : ToleranceVals, Input : {<<"i", "n", ".", "p", "n", "g">>},
                 Output : {<<>>}, Overwrite : {FALSE}]
    /\ last = ""
    /\ src \in ChromaInputs
    /\ result = <<>>
    /\ err = ""
    /\ fs \in FsStates

\* runTransparentMake up to its call of image.MakeTransparent: the input
\* must exist, the output path is worked out (which can panic), and the
\* tolerance must be within 0..100.
RunTransparentMake ==
    /\ cmd = "chroma"
    /\ pc = "start"
    /\ \E exists \in BOOLEAN :
         IF ~exists
         THEN pc' = "failed" /\ err' = "FILE_NOT_FOUND"
         ELSE IF makeOutputPath(opts).panic
         THEN pc' = "panicked" /\ err' = "slice bounds out of range"
         ELSE IF opts.Tolerance < 0 \/ opts.Tolerance > 100
         THEN pc' = "failed" /\ err' = "INVALID_TOLERANCE"
         ELSE pc' = "color" /\ err' = ""
    /\ UNCHANGED <<cmd, opts, last, src, result, fs>>

\* MakeTransparent: parse the target colour.
ParseColorStep ==
    /\ cmd = "chroma"
    /\ pc = "color"
    /\ IF parseColor(opts.Color).ok
       THEN pc' = "open" /\ err' = ""
       ELSE pc' = "failed" /\ err' = "invalid color"
    /\ UNCHANGED <<cmd, opts, last, src, result, fs>>

\* MakeTransparent: imaging.Open decodes the input, or fails.
OpenChroma ==
    /\ cmd = "chroma"
    /\ pc = "open"
    /\ \/ pc' = "pixels" /\ err' = ""
       \/ pc' = "failed" /\ err' = "failed to open image"
    /\ UNCHANGED <<cmd, opts, last, src, result, fs>>

\* MakeTransparent: the loop over every pixel of the input.
KeyPixels ==
    /\ cmd = "chroma"
    /\ pc = "pixels"
    /\ result' = [i \in 1..Len(src.px) |->
                    keyPixel(src.px[i], parseColor(opts.Color), opts.Tolerance)]
    /\ pc' = "mkdir"
    /\ UNCHANGED <<cmd, opts, last, src, err, fs>>

\* os.Create: the file exists and is empty afterwards, or the call fails and
\* nothing changes.
CreateStep ==
    /\ cmd \in {"chroma", "combine"}
    /\ pc = "create"
    /\ \/ /\ fs' = [fs EXCEPT !.out = "empty"]
          /\ pc' = "encode"
          /\ err' = ""
       \/ /\ fs' = fs
          /\ pc' = "failed"
          /\ err' = "failed to create output file"
    /\ UNCHANGED <<cmd, opts, last, src, result>>

\* png.Encode into the created file: the whole image is written, or a write
\* fails part of the way; the file is closed on return either way.
EncodeStep ==
    /\ cmd \in {"chroma", "combine"}
    /\ pc = "encode"
    /\ \/ /\ fs' = [fs EXCEPT !.out = "new"]
          /\ pc' = "done"
          /\ err' = ""
       \/ /\ fs' = [fs EXCEPT !.out = "partial"]
          /\ pc' = "failed"
          /\ err' = "failed to encode PNG"
    /\ UNCHANGED <<cmd, opts, last, src, result>>

NextChroma ==
    \/ RunTransparentMake
    \/ ParseColorStep
    \/ OpenChroma
    \/ KeyPixels
    \/ MkdirStep
    \/ CreateStep
    \/ EncodeStep

SpecChroma == InitChroma /\ [][NextChroma]_vars

\* The input paths explored for the output path: with and without ".png",
\* of four characters and more, and of fewer.
MakeInputs ==
    { <<"i", "n", ".", "p", "n", "g">>, <<"d", "i", "r", "/", "p", "h", "o", "t", "o", ".", "j", "p", "g">>, <<".", "p", "n", "g">>, <<"x", ".", "P", "N", "G">>,
      <<"a", "b", "c">>, <<"a">>, <<"p", "n", "g">> }

\* A transparent make run followed for its output path: with and without
\* -o and --overwrite.
InitMakePath ==
    /\ cmd = "chroma"
    /\ pc = "start"
    /\ opts \in [Color : {<<"w", "h", "i", "t", "e">>, <<"r", "e", "d">>}, Tolerance : {10, 101}, Input : MakeInputs,
                 Output : {<<>>, <<"o", ".", "p", "n", "g">>}, Overwrite : BOOLEAN]
    /\ last = ""
    /\ src = [alpha |-> FALSE, px |-> <<[R |-> 255, G |-> 255, B |-> 255, A |-> 255]>>]
    /\ result = <<>>
    /\ err = ""
    /\ fs \in FsStates

SpecMakePath == InitMakePath /\ [][NextChroma]_vars

----------------------------------------------------------------------------
(* The composition engine: CombineImages and its three layouts.            *)
(* An input is its size [w, h]; the canvas is [w, h, cols, rows, at] with  *)
(* at[i] the rectangle [x, y, w, h] handed to draw.Draw for input i.       *)

\* calculateAlignment with "end" falling through to the centred offset.
calculateAlignmentEndCentred(containerSize, itemSize, align) ==
    CASE align = "start" -> 0
      [] OTHER -> GoDiv(containerSize - itemSize, 2)

\* calculateAlignment
calculateAlignment(containerSize, itemSize, align) ==
    CASE align = "start" -> 0
      [] align = "end" -> containerSize - itemSize
      [] align \in {"center", ""} -> GoDiv(containerSize - itemSize, 2)
      [] OTHER -> GoDiv(containerSize - itemSize, 2)

RECURSIVE totalAlongGapEvery(_, _, _, _)
\* totalAlong with the gap added for the first input too.
totalAlongGapEvery(sizes, gap, i, total) ==
    IF i > Len(sizes) THEN total
    ELSE totalAlongGapEvery(sizes, gap, i + 1, total + sizes[i] + gap)

RECURSIVE totalAlong(_, _, _, _)
\* The first loop of combineHorizontal (and, on heights, of combineVertical):
\* the sizes along the layout axis added up, with the gap added for every
\* input but the first.  sizes[i] is the size of input i along the axis.
totalAlong(sizes, gap, i, total) ==
    IF i > Len(sizes) THEN total
    ELSE totalAlong(sizes, gap, i + 1,
                    total + sizes[i] + (IF i > 1 THEN gap ELSE 0))

\* The size of the first input in place of the running maximum.
maxOfFirst(sizes, i, m) == sizes[1]

RECURSIVE maxOf(_, _, _)
\* The running maximum kept by the loops, starting from 0.
maxOf(sizes, i, m) ==
    IF i > Len(sizes) THEN m
    ELSE maxOf(sizes, i + 1, IF sizes[i] > m THEN sizes[i] ELSE m)

RECURSIVE offsetsAlong(_, _, _, _)
\* The draw loop's running offset: input i is drawn at the current offset,
\* which then advances by its size and, unless it is the last, by the gap.
offsetsAlong(sizes, gap, i, at) ==
    IF i > Len(sizes) THEN <<>>
    ELSE <<at>> \o offsetsAlong(sizes, gap, i + 1,
                                at + sizes[i] + (IF i < Len(sizes) THEN gap ELSE 0))

\* fillBackground with every value that is not a colour name taken for
\* transparent, the hexadecimal ones too.
fillBackgroundNamesOnly(bg) ==
    LET lower == ToLower(bg) IN
    IF lower = <<"t", "r", "a", "n", "s", "p", "a", "r", "e", "n", "t">> \/ lower = <<>>
    THEN [R |-> 0, G |-> 0, B |-> 0, A |-> 0]
    ELSE IF lower = <<"w", "h", "i", "t", "e">> THEN [R |-> 255, G |-> 255, B |-> 255, A |-> 255]
    ELSE IF lower = <<"b", "l", "a", "c", "k">> THEN [R |-> 0, G |-> 0, B |-> 0, A |-> 255]
    ELSE [R |-> 0, G |-> 0, B |-> 0, A |-> 0]

\* fillBackground: the colour the whole canvas is filled with.
fillBackground(bg) ==
    LET lower == ToLower(bg) IN
    IF lower = <<"t", "r", "a", "n", "s", "p", "a", "r", "e", "n", "t">> \/ lower = <<>>
    THEN [R |-> 0, G |-> 0, B |-> 0, A |-> 0]
    ELSE IF lower = <<"w", "h", "i", "t", "e">> THEN [R |-> 255, G |-> 255, B |-> 255, A |-> 255]
    ELSE IF lower = <<"b", "l", "a", "c", "k">> THEN [R |-> 0, G |-> 0, B |-> 0, A |-> 255]
    ELSE LET c == parseColor(bg) IN
         IF c.ok THEN [R |-> c.R, G |-> c.G, B |-> c.B, A |-> 255]
         ELSE [R |-> 0, G |-> 0, B |-> 0, A |-> 0]

\* The rectangle r = [x, y, w, h] holds the position p.
InRect(p, r) == r.x <= p[1] /\ p[1] < r.x + r.w /\ r.y <= p[2] /\ p[2] < r.y + r.h

\* The pixels of the canvas after the fill and the draw loop: a pixel is
\* [from, c], from being 0 and c the fill colour where no input was drawn,
\* and from being the number of the input drawn last over the place
\* otherwise (the inputs are taken to be opaque, c then standing for the
\* input's own pixel).
drawImages(w, h, bgColor, at) ==
    [p \in Grid(w, h) |->
        LET over == { i \in 1..Len(at) : InRect(p, at[i]) } IN
        IF over = {} THEN [from |-> 0, c |-> bgColor]
        ELSE [from |-> CHOOSE i \in over : \A k \in over : k <= i,
              c |-> [R |-> 128, G |-> 128, B |-> 128, A |-> 255]]]

Widths(images) == [i \in 1..Len(images) |-> images[i].w]
Heights(images) == [i \in 1..Len(images) |-> images[i].h]

combineHorizontal(images, o) ==
    LET totalWidth == totalAlong(Widths(images), o.Gap, 1, 0)
        maxHeight == maxOf(Heights(images), 1, 0)
        xs == offsetsAlong(Widths(images), o.Gap, 1, 0)
        at == [i \in 1..Len(images) |->
                   [x |-> xs[i],
                    y |-> calculateAlignment(maxHeight, images[i].h, o.Align),
                    w |-> images[i].w, h |-> images[i].h]]
    IN  [w |-> totalWidth, h |-> maxHeight, cols |-> 0, rows |-> 0, at |-> at,
         px |-> drawImages(totalWidth, maxHeight, fillBackground(o.Background), at)]

combineVertical(images, o) ==
    LET maxWidth == maxOf(Widths(images), 1, 0)
        totalHeight == totalAlong(Heights(images), o.Gap, 1, 0)
        ys == offsetsAlong(Heights(images), o.Gap, 1, 0)
        at == [i \in 1..Len(images) |->
                   [x |-> calculateAlignment(maxWidth, images[i].w, o.Align),
                    y |-> ys[i],
                    w |-> images[i].w, h |-> images[i].h]]
    IN  [w |-> maxWidth, h |-> totalHeight, cols |-> 0, rows |-> 0, at |-> at,
         px |-> drawImages(maxWidth, totalHeight, fillBackground(o.Background), at)]

\* gridCols without the rounding term: int(float64(n)*0.5).
gridColsTruncated(n, columns) ==
    IF columns <= 0 THEN Max(1, n \div 2) ELSE columns

\* The column count of combineGrid: the flag when positive, else
\* int(float64(n)*0.5 + 0.5), at least 1.
gridCols(n, columns) ==
    IF columns <= 0 THEN Max(1, (n + 1) \div 2) ELSE columns

\* The row count of combineGrid.
gridRows(n, cols) == GoDiv(n + cols - 1, cols)

\* cellOrigin with the gap between the cells left out.
cellOriginNoGap(index, cellSize, gap) == index * cellSize

\* The left (or top) edge of the grid cell in column (or row) index.
cellOrigin(index, cellSize, gap) == index * (cellSize + gap)

combineGrid(images, o) ==
    LET cols == gridCols(Len(images), o.Columns)
        rows == gridRows(Len(images), cols)
        maxCellWidth == maxOf(Widths(images), 1, 0)
        maxCellHeight == maxOf(Heights(images), 1, 0)
        totalWidth == cols * maxCellWidth + (cols - 1) * o.Gap
        totalHeight == rows * maxCellHeight + (rows - 1) * o.Gap
        at == [i \in 1..Len(images) |->
                   LET row == GoDiv(i - 1, cols)
                       col == (i - 1) % cols
                       cellX == cellOrigin(col, maxCellWidth, o.Gap)
                       cellY == cellOrigin(row, maxCellHeight, o.Gap)
                   IN  [x |-> cellX + GoDiv(maxCellWidth - images[i].w, 2),
                        y |-> cellY + GoDiv(maxCellHeight - images[i].h, 2),
                        w |-> images[i].w, h |-> images[i].h]]
    IN  [w |-> totalWidth, h |-> totalHeight, cols |-> cols, rows |-> rows, at |-> at,
         px |-> drawImages(totalWidth, totalHeight, fillBackground(o.Background), at)]

\* Largest number of input images, largest gap and largest --columns value.
MaxImages == 4
MaxGap == 2
MaxColumns == 3

\* The sizes an input image can have.
ImageSizes == { [w |-> 1, h |-> 1], [w |-> 2, h |-> 3], [w |-> 3, h |-> 2] }

\* The input lists: one to MaxImages images, each given as one argument of the
\* command line.
CombineInputs == { q \in SeqsUpTo(ImageSizes, MaxImages) : Len(q) >= 1 }

AlignVals == {"start", "center", "end", ""}

\* The option records explored.  --align is read by the row and column
\* layouts only and --columns by the grid layout only, so each is varied
\* where it is read and left at its default elsewhere.
CombineOpts ==
    { [Direction |-> d, Gap |-> g, Columns |-> 0, Align |-> a,
       Background |-> <<"t", "r", "a", "n", "s", "p", "a", "r", "e", "n", "t">>] :
        d \in {"horizontal", "vertical"}, g \in 0..MaxGap, a \in AlignVals }
      \cup
    { [Direction |-> d, Gap |-> g, Columns |-> c, Align |-> "center",
       Background |-> <<"t", "r", "a", "n", "s", "p", "a", "r", "e", "n", "t">>] :
        d \in {"grid", "diagonal"}, g \in 0..MaxGap, c \in 0..MaxColumns }

NoCanvas == [w |-> 0, h |-> 0, cols |-> 0, rows |-> 0, at |-> <<>>, px |-> <<>>]

InitCombine ==
    /\ cmd = "combine"
    /\ pc = "start"
    /\ opts \in CombineOpts
    /\ last = ""
    /\ src \in CombineInputs
    /\ result = NoCanvas
    /\ err = ""
    /\ fs \in FsStates

\* cobra.MinimumNArgs(2): the command does not run with fewer than two
\* arguments.
CheckArgs ==
    /\ cmd = "combine"
    /\ pc = "start"
    /\ IF Len(src) < 2
       THEN pc' = "failed" /\ err' = "requires at least 2 arg(s)"
       ELSE pc' = "run" /\ err' = ""
    /\ UNCHANGED <<cmd, opts, last, src, result, fs>>

\* runCombine without its tests of the number of inputs and of the direction.
RunCombineUnchecked ==
    /\ cmd = "combine"
    /\ pc = "run"
    /\ \E exists \in BOOLEAN :
         IF ~exists
         THEN pc' = "failed" /\ err' = "FILE_NOT_FOUND"
         ELSE IF opts.Gap < 0
         THEN pc' = "failed" /\ err' = "INVALID_GAP"
         ELSE pc' = "load" /\ err' = ""
    /\ UNCHANGED <<cmd, opts, last, src, result, fs>>

\* runCombine up to its call of image.CombineImages: at least two inputs, a
\* known direction and a gap that is not negative.
RunCombine ==
    /\ cmd = "combine"
    /\ pc = "run"
    /\ \E exists \in BOOLEAN :
         IF ~exists
         THEN pc' = "failed" /\ err' = "FILE_NOT_FOUND"
         ELSE IF Len(src) < 2
         THEN pc' = "failed" /\ err' = "NOT_ENOUGH_IMAGES"
         ELSE IF opts.Direction \notin {"horizontal", "vertical", "grid"}
         THEN pc' = "failed" /\ err' = "INVALID_DIRECTION"
         ELSE IF opts.Gap < 0
         THEN pc' = "failed" /\ err' = "INVALID_GAP"
         ELSE pc' = "load" /\ err' = ""
    /\ UNCHANGED <<cmd, opts, last, src, result, fs>>

\* CombineImages: the count check and the loop that opens every input.
LoadImages ==
    /\ cmd = "combine"
    /\ pc = "load"
    /\ IF Len(src) < 2
       THEN pc' = "failed" /\ err' = "at least 2 images are required"
       ELSE \/ pc' = "layout" /\ err' = ""
            \/ pc' = "failed" /\ err' = "failed to open"
    /\ UNCHANGED <<cmd, opts, last, src, result, fs>>

\* CombineImages: the switch on the direction builds the canvas.
Layout ==
    /\ cmd = "combine"
    /\ pc = "layout"
    /\ CASE opts.Direction = "horizontal" ->
              result' = combineHorizontal(src, opts) /\ pc' = "mkdir" /\ err' = ""
         [] opts.Direction = "vertical" ->
              result' = combineVertical(src, opts) /\ pc' = "mkdir" /\ err' = ""
         [] opts.Direction = "grid" ->
              result' = combineGrid(src, opts) /\ pc' = "mkdir" /\ err' = ""
         [] OTHER ->
              result' = result /\ pc' = "failed" /\ err' = "invalid direction"
    /\ UNCHANGED <<cmd, opts, last, src, fs>>

NextCombine ==
    \/ CheckArgs
    \/ RunCombine
    \/ LoadImages
    \/ Layout
    \/ MkdirStep
    \/ CreateStep
    \/ EncodeStep

SpecCombine == InitCombine /\ [][NextCombine]_vars

\* The values of --background explored: the three names (in any case), the
\* empty value, hexadecimal colours with and without "#", and values that
\* are neither.
BackgroundVals ==
    { <<"t", "r", "a", "n", "s", "p", "a", "r", "e", "n", "t">>, <<>>, <<"W", "h", "i", "t", "e">>, <<"b", "l", "a", "c", "k">>,
      <<"#", "f", "f", "0", "0", "0", "0">>, <<"0", "0", "F", "F", "7", "f">>,
      <<"r", "e", "d">>, <<"#", "1", "2", "3", "4", "5">>, <<"g", "g", "0", "0", "0", "0">> }

\* The requests explored for the background: every layout, with and without
\* a gap.
BackgroundOpts ==
    { [Direction |-> d, Gap |-> g, Columns |-> 0, Align |-> "center", Background |-> b] :
        d \in {"horizontal", "vertical", "grid"}, g \in {0, MaxGap}, b \in BackgroundVals }

InitBackground ==
    /\ cmd = "combine"
    /\ pc = "start"
    /\ opts \in BackgroundOpts
    /\ last = ""
    /\ src \in { q \in CombineInputs : Len(q) \in {2, 3} }
    /\ result = NoCanvas
    /\ err = ""
    /\ fs = [out |-> "absent", dir |-> FALSE]

SpecBackground == InitBackground /\ [][NextCombine]_vars

----------------------------------------------------------------------------
(* Claims about the chroma-key pass.                                       *)

\* The pixel loop has run.
Keyed == cmd = "chroma" /\ result # <<>>

TargetColor == parseColor(opts.Color)

\* The stored colour of source pixel i is within tolerance of the target.
StoredColourWithin(i) ==
    100 * ((src.px[i].R - TargetColor.R) * (src.px[i].R - TargetColor.R)
           + (src.px[i].G - TargetColor.G) * (src.px[i].G - TargetColor.G)
           + (src.px[i].B - TargetColor.B) * (src.px[i].B - TargetColor.B))
      <= 765 * opts.Tolerance

StoredColourIsTarget(i) ==
    /\ src.px[i].R = TargetColor.R
    /\ src.px[i].G = TargetColor.G
    /\ src.px[i].B = TargetColor.B

\* C2: a pixel with colour (r,g,b) that is not fully transparent already
\* gets alpha 0 if and only if ((r-T.r)^2 + (g-T.g)^2 + (b-T.b)^2) / 3 is
\* at most tolerance/100*255.
C2_AlphaZeroIffWithin ==
    Keyed => \A i \in 1..Len(src.px) :
                src.px[i].A # 0 => (result[i].A = 0 <=> StoredColourWithin(i))

\* C3: a pixel that is not within tolerance of the target keeps its red,
\* green, blue and alpha, whatever its alpha; without an alpha channel in
\* the source it comes out opaque.
C3_OthersKeepColourAndAlpha ==
    Keyed => \A i \in 1..Len(src.px) :
                ~StoredColourWithin(i) =>
                    /\ result[i] = src.px[i]
                    /\ ~src.alpha => result[i].A = 255

\* C9: with tolerance 0 a pixel that differs from the target colour in any
\* channel keeps its alpha, so only exact matches are made transparent.
C9_ToleranceZeroExactOnly ==
    (Keyed /\ opts.Tolerance = 0) =>
        \A i \in 1..Len(src.px) :
            ~StoredColourIsTarget(i) => result[i].A = src.px[i].A

----------------------------------------------------------------------------
(* Claims about the output file.                                           *)

\* C4: a combine or chroma-key run that fails leaves the output path as it
\* was (no file, or the old file untouched); a run that succeeds has written
\* the output file.
C4_AllOrNothing ==
    cmd \in {"chroma", "combine"} =>
        /\ pc = "failed" => fs.out \in {"absent", "old"}
        /\ pc = "done" => fs.out = "new"

----------------------------------------------------------------------------
(* Claims about the composition engine.                                    *)

\* The canvas has been built.
Laid == cmd = "combine" /\ pc \in {"mkdir", "create", "encode", "done"}

RECURSIVE SumSeq(_)
SumSeq(q) == IF q = <<>> THEN 0 ELSE Head(q) + SumSeq(Tail(q))

\* The largest element of a non-empty sequence of numbers.
MaxSeq(q) == CHOOSE m \in { q[i] : i \in 1..Len(q) } : \A i \in 1..Len(q) : q[i] <= m

\* The sum of the first k elements.
SumBefore(q, k) == SumSeq(SubSeq(q, 1, k))

\* C5: in row layout the canvas is (sum of widths + (n-1)*gap) wide and as
\* high as the highest input, and input i (0-based) is drawn at x = sum of
\* the widths before it + i*gap, the first at 0 and the last ending at the
\* right edge; column layout is the same with the axes exchanged.
C5_RowColumnLayout ==
    LET n == Len(src) IN
    /\ (Laid /\ opts.Direction = "horizontal") =>
          /\ result.w = SumSeq(Widths(src)) + (n - 1) * opts.Gap
          /\ result.h = MaxSeq(Heights(src))
          /\ \A i \in 1..n :
                result.at[i].x = SumBefore(Widths(src), i - 1) + (i - 1) * opts.Gap
          /\ result.at[1].x = 0
          /\ result.at[n].x + src[n].w = result.w
    /\ (Laid /\ opts.Direction = "vertical") =>
          /\ result.h = SumSeq(Heights(src)) + (n - 1) * opts.Gap
          /\ result.w = MaxSeq(Widths(src))
          /\ \A i \in 1..n :
                result.at[i].y = SumBefore(Heights(src), i - 1) + (i - 1) * opts.Gap
          /\ result.at[1].y = 0
          /\ result.at[n].y + src[n].h = result.h

\* A row of three inputs of different widths with a gap between them.
C5_Witness ==
    /\ Laid /\ pc = "done" /\ opts.Direction = "horizontal"
    /\ Len(src) = 3 /\ opts.Gap = 2
    /\ src[1].w = 2 /\ src[2].w = 1 /\ src[3].w = 3
    /\ result.at[3].x = 7 /\ result.w = 10

\* r is the quotient n / c rounded up.
IsCeilDiv(r, n, c) == r * c >= n /\ (r - 1) * c < n

\* C6: in grid layout with c columns the canvas has ceil(n/c) rows of cells
\* of (max width) x (max height), is c*cellW + (c-1)*gap wide and
\* r*cellH + (r-1)*gap high, and input i (0-based) is centred in the cell at
\* row i div c, column i mod c; four equal W x H inputs in two columns give
\* a canvas of 2W+gap by 2H+gap.
C6_GridLayout ==
    (Laid /\ opts.Direction = "grid") =>
        LET n == Len(src)
            c == IF opts.Columns > 0 THEN opts.Columns ELSE result.cols
            r == result.rows
            cellW == MaxSeq(Widths(src))
            cellH == MaxSeq(Heights(src))
        IN  /\ IsCeilDiv(r, n, c)
            /\ result.w = c * cellW + (c - 1) * opts.Gap
            /\ result.h = r * cellH + (r - 1) * opts.Gap
            /\ \A i \in 1..n :
                 LET cellX == ((i - 1) % c) * (cellW + opts.Gap)
                     cellY == ((i - 1) \div c) * (cellH + opts.Gap)
                     left == result.at[i].x - cellX
                     right == cellX + cellW - (result.at[i].x + src[i].w)
                     top == result.at[i].y - cellY
                     bottom == cellY + cellH - (result.at[i].y + src[i].h)
                 IN  /\ left >= 0 /\ right - left \in {0, 1}
                     /\ top >= 0 /\ bottom - top \in {0, 1}
            /\ (n = 4 /\ c = 2 /\ \A i \in 1..n : src[i] = src[1]) =>
                 /\ result.w = 2 * src[1].w + opts.Gap
                 /\ result.h = 2 * src[1].h + opts.Gap

\* Four equal 2 x 3 inputs in a two-column grid with a gap of 1.
C6_Witness ==
    /\ Laid /\ pc = "done" /\ opts.Direction = "grid"
    /\ Len(src) = 4 /\ opts.Columns = 2 /\ opts.Gap = 1
    /\ \A i \in 1..4 : src[i] = [w |-> 2, h |-> 3]
    /\ result.w = 5 /\ result.h = 7
    /\ result.at[4].x = 3 /\ result.at[4].y = 4

IsAligned(offset, container, item, align) ==
    CASE align = "start" -> offset = 0
      [] align = "end" -> offset = container - item
      [] align \in {"center", ""} ->
            2 * offset <= container - item /\ container - item <= 2 * offset + 1

\* C8: in row layout the y of every input is 0 for start, canvas height -
\* image height for end and floor((canvas height - image height) / 2) for
\* center or an unset align; in column layout the same holds of x and the
\* widths.
C8_Alignment ==
    /\ (Laid /\ opts.Direction = "horizontal") =>
          \A i \in 1..Len(src) :
              IsAligned(result.at[i].y, result.h, src[i].h, opts.Align)
    /\ (Laid /\ opts.Direction = "vertical") =>
          \A i \in 1..Len(src) :
              IsAligned(result.at[i].x, result.w, src[i].w, opts.Align)

\* A centred row whose inputs leave an even and an odd amount of room.
C8_Witness ==
    /\ Laid /\ opts.Direction = "horizontal" /\ opts.Align = "center"
    /\ Len(src) = 3
    /\ src[1].h = 1 /\ src[2].h = 3 /\ src[3].h = 2
    /\ result.at[1].y = 1 /\ result.at[2].y = 0 /\ result.at[3].y = 0

----------------------------------------------------------------------------
(* Claims about resize with fit contain.                                   *)

\* A contain (or inside, or unset) resize to an explicit box has returned.
Contained ==
    /\ cmd = "resize" /\ pc = "resized"
    /\ opts.Fit \in {"contain", "inside", ""}
    /\ Len(opts.Resize) = 3 /\ opts.Resize[2] = "x"

BoxW == DigitVal(opts.Resize[1])
BoxH == DigitVal(opts.Resize[3])

\* The output has the input's aspect ratio, as far as whole pixels allow:
\* one side is within a pixel of the other side scaled by the ratio.
AspectKept ==
    \/ Abs(result.h * src.w - result.w * src.h) < src.w
    \/ Abs(result.w * src.h - result.h * src.w) < src.h

FitsBoxTightly ==
    /\ AspectKept
    /\ result.w = BoxW \/ result.h = BoxH
    /\ result.w <= BoxW /\ result.h <= BoxH

\* C10 as claimed: for every input size, smaller or larger than the box, the
\* output keeps the aspect ratio, one side equals its target and the other
\* is at most its target.
C10_ContainEveryInput == Contained => FitsBoxTightly

\* C10 as amended: that holds for every input exceeding the box in width or
\* height; an input that already fits inside the box comes out unchanged.
C10_ContainScalesDown ==
    Contained =>
        IF src.w <= BoxW /\ src.h <= BoxH THEN result = src ELSE FitsBoxTightly

\* A 4 x 3 input contained in a 2 x 3 box comes out 2 x 1.
C10_Witness ==
    /\ Contained
    /\ src.w = 4 /\ src.h = 3 /\ BoxW = 2 /\ BoxH = 3
    /\ result.w = 2 /\ result.h = 1

----------------------------------------------------------------------------
(* Claims about resize with fit cover.                                     *)

\* The target box of a "WxH" size spec.
TargetW == Atoi(Split(ToLower(opts.Resize), "x")[1]).val
TargetH == Atoi(Split(ToLower(opts.Resize), "x")[2]).val

\* The raster that reached the resize stage of a crop-then-cover request.
CroppedInput == applyCrop(src, opts.Crop).img

C11_CropThenCover ==
    (cmd = "resize" /\ pc = "covered" /\ CroppedInput.w > 0)
        => (result.w = TargetW /\ result.h = TargetH)

C11_IconExact ==
    (cmd = "resize" /\ pc = "icon")
        => /\ TargetW = TargetH /\ TargetW \in IconSizeVals
           /\ result.w = TargetW /\ result.h = TargetH

\* C11: a crop followed by a cover resize to W x H gives exactly W x H
\* whatever the shape of the cropped raster, and the raster the icon command
\* makes for size s is exactly s x s.
C11_CoverIsExact == C11_CropThenCover /\ C11_IconExact

\* A 4 x 4 input cropped to 3 x 1 and covered into a 2 x 4 box comes out
\* 2 x 4.
C11_Witness ==
    /\ cmd = "resize" /\ pc = "covered"
    /\ src.w = 4 /\ src.h = 4
    /\ CroppedInput.w = 3 /\ CroppedInput.h = 1
    /\ TargetW = 2 /\ TargetH = 4
    /\ result.w = 2 /\ result.h = 4

----------------------------------------------------------------------------
(* Claims about the requests the transform command rejects.                *)

\* The request sets no operation (the fit mode is not one).
NoOperation ==
    /\ opts.Resize = <<>> /\ opts.Crop = <<>> /\ opts.Rotate = 0
    /\ ~opts.Flip /\ ~opts.Flop

\* The output path is as it was before the command ran.
OutputUntouched == fs \in FsStates

\* C12: a transform request that sets no operation never reaches Transform:
\* it is rejected with the no-operation error (after the test that the input
\* exists) and the output path is left as it was.
C12_NoOperationRejected ==
    (cmd = "transform" /\ NoOperation /\ pc # "flags")
        => /\ pc = "failed"
           /\ err \in {"NO_OPERATION", "FILE_NOT_FOUND"}
           /\ OutputUntouched

\* A request that only gave --fit cover was rejected; the existing output
\* file is still the old one.
C12_Witness ==
    /\ cmd = "transform" /\ pc = "failed" /\ err = "NO_OPERATION"
    /\ NoOperation /\ opts.Fit = "cover" /\ last = "fit"
    /\ fs.out = "old"

\* The request has got past the crop stage of Transform.
PastCrop == pc \in {"resize", "rotate", "flip", "flop", "mkdir", "save", "done"}

\* The request has got past the resize stage of Transform.
PastResize == pc \in {"rotate", "flip", "flop", "mkdir", "save", "done"}

\* The crop spec is four integers left, top, width, height, none negative,
\* width and height positive, and the region lies inside img.
CropInBounds(img, cropSpec) ==
    LET parts == Split(cropSpec, ",") IN
    /\ Len(parts) = 4
    /\ \A i \in 1..4 : Atoi(TrimSpace(parts[i])).ok
    /\ LET left == Atoi(TrimSpace(parts[1])).val
           top == Atoi(TrimSpace(parts[2])).val
           width == Atoi(TrimSpace(parts[3])).val
           height == Atoi(TrimSpace(parts[4])).val
       IN  /\ left >= 0 /\ top >= 0 /\ width > 0 /\ height > 0
           /\ left + width <= img.w /\ top + height <= img.h

\* C13: a request whose crop gets past the crop stage has a spec of four
\* integers that are non-negative, with positive width and height, naming a
\* region inside the image; every other crop spec has stopped the transform
\* there.
C13_CropOnlyInBounds ==
    (cmd = "transform" /\ opts.Crop # <<>> /\ PastCrop)
        => CropInBounds(src, opts.Crop)

FitValues == {"fill", "contain", "inside", "cover", "outside", ""}

\* C14 as claimed: a request whose fit is none of the fit values gets no
\* further than the resize stage, whatever else it asks for.
C14_InvalidFitAlwaysFails ==
    (cmd = "transform" /\ PastResize) => opts.Fit \in FitValues

\* C14 as amended: a request that asks for a resize with a fit that is none
\* of the fit values gets no further than the resize stage, where it fails
\* with the invalid-fit error, and the output path is left as it was.
C14_InvalidFitFailsResize ==
    (cmd = "transform" /\ opts.Resize # <<>> /\ opts.Fit \notin FitValues
       /\ pc \notin {"flags", "open", "crop", "resize"})
        => /\ pc = "failed"
           /\ OutputUntouched
           /\ err = "resize failed" =>
                applyResize(Cropped(src, opts), opts.Resize, opts.Fit).msg = "invalid fit mode"

\* A request to resize with fit "stretch" and to rotate failed in the resize
\* stage; the existing output file is still the old one.
C14_Witness ==
    /\ cmd = "transform" /\ pc = "failed" /\ err = "resize failed"
    /\ opts.Fit = "stretch" /\ opts.Resize # <<>> /\ opts.Rotate = 90
    /\ fs.out = "old"

----------------------------------------------------------------------------
(* Claims about resize with fit outside.                                   *)

\* An outside resize to an explicit box has returned.
Outside ==
    /\ cmd = "resize" /\ pc = "resized"
    /\ opts.Fit = "outside"
    /\ Len(opts.Resize) = 3 /\ opts.Resize[2] = "x"

\* n is a * b / c rounded to the nearest whole number.
IsRounded(n, a, b, c) == 2 * Abs(n * c - a * b) <= c

\* C15: an outside resize of a w x h raster to the box W x H matches the
\* height when w/h > W/H and the width otherwise, scales the other side by
\* the same factor (rounded to a whole pixel), and leaves neither side
\* smaller than its target.
C15_OutsideMatchesOneSide ==
    Outside =>
        /\ IF src.w * TargetH > TargetW * src.h
           THEN result.h = TargetH /\ IsRounded(result.w, TargetH, src.w, src.h)
           ELSE result.w = TargetW /\ IsRounded(result.h, TargetW, src.h, src.w)
        /\ result.w >= TargetW /\ result.h >= TargetH

\* A 4 x 2 input resized outside a 3 x 3 box comes out 6 x 3.
C15_Witness ==
    /\ Outside
    /\ src.w = 4 /\ src.h = 2 /\ TargetW = 3 /\ TargetH = 3
    /\ result.w = 6 /\ result.h = 3

----------------------------------------------------------------------------
(* Claims about the requests the combine command rejects.                  *)

----------------------------------------------------------------------------
(* The generate command and the remote generation call.                    *)
(* An error text of the remote is a sequence of fragments; the characters  *)
(* of the text are the characters of its fragments, one after the other.   *)

\* The fragments the error texts of the model are made of.
Fragments ==
    { "API key", "unauthorized", "401", "quota", "429", "rate limit", "safety", "blocked", "timeout", "rate", " limit", "4", "01" }

\* The characters of a fragment.
Chars(f) ==
    CASE f = "API key" -> <<"A", "P", "I", " ", "k", "e", "y">>
      [] f = "unauthorized" -> <<"u", "n", "a", "u", "t", "h", "o", "r", "i", "z", "e", "d">>
      [] f = "401" -> <<"4", "0", "1">>
      [] f = "quota" -> <<"q", "u", "o", "t", "a">>
      [] f = "429" -> <<"4", "2", "9">>
      [] f = "rate limit" -> <<"r", "a", "t", "e", " ", "l", "i", "m", "i", "t">>
      [] f = "safety" -> <<"s", "a", "f", "e", "t", "y">>
      [] f = "blocked" -> <<"b", "l", "o", "c", "k", "e", "d">>
      [] f = "timeout" -> <<"t", "i", "m", "e", "o", "u", "t">>
      [] f = "rate" -> <<"r", "a", "t", "e">>
      [] f = " limit" -> <<" ", "l", "i", "m", "i", "t">>
      [] f = "4" -> <<"4">>
      [] f = "01" -> <<"0", "1">>

RECURSIVE Flatten(_)
\* The characters of a text.
Flatten(text) == IF text = <<>> THEN <<>> ELSE Chars(Head(text)) \o Flatten(Tail(text))

\* strings.Contains on characters.
ContainsChars(hay, needle) ==
    \E i \in 0..(Len(hay) - Len(needle)) :
        \A j \in 1..Len(needle) : hay[i + j] = needle[j]

\* strings.Contains(errStr, substr), substr being one fragment.
Contains(errStr, substr) == ContainsChars(Flatten(errStr), Chars(substr))

\* Largest number of fragments of an error text.
MaxFragments == 2

\* The error texts the remote call can return.
ErrorTexts == SeqsUpTo(Fragments, MaxFragments)

\* classifyError with the rate-limit test moved before the quota test.
classifyErrorRateLimitFirst(errStr) ==
    IF Contains(errStr, "API key") \/ Contains(errStr, "unauthorized")
         \/ Contains(errStr, "401")
    THEN [Code |-> "INVALID_API_KEY", Message |-> <<"Invalid or unauthorized API key">>]
    ELSE IF Contains(errStr, "rate limit")
    THEN [Code |-> "RATE_LIMITED", Message |-> <<"Rate limit exceeded, please wait">>]
    ELSE IF Contains(errStr, "quota") \/ Contains(errStr, "429")
    THEN [Code |-> "QUOTA_EXCEEDED", Message |-> <<"API quota exceeded">>]
    ELSE IF Contains(errStr, "safety") \/ Contains(errStr, "blocked")
    THEN [Code |-> "SAFETY_BLOCKED", Message |-> <<"Content blocked by safety filters">>]
    ELSE [Code |-> "API_ERROR", Message |-> errStr]

\* classifyError: the GeminiError made of the error of the remote call.
classifyError(errStr) ==
    IF Contains(errStr, "API key") \/ Contains(errStr, "unauthorized")
         \/ Contains(errStr, "401")
    THEN [Code |-> "INVALID_API_KEY", Message |-> <<"Invalid or unauthorized API key">>]
    ELSE IF Contains(errStr, "quota") \/ Contains(errStr, "429")
    THEN [Code |-> "QUOTA_EXCEEDED", Message |-> <<"API quota exceeded">>]
    ELSE IF Contains(errStr, "rate limit")
    THEN [Code |-> "RATE_LIMITED", Message |-> <<"Rate limit exceeded, please wait">>]
    ELSE IF Contains(errStr, "safety") \/ Contains(errStr, "blocked")
    THEN [Code |-> "SAFETY_BLOCKED", Message |-> <<"Content blocked by safety filters">>]
    ELSE [Code |-> "API_ERROR", Message |-> errStr]

\* AspectRatios
AspectRatios == {"1:1", "3:2", "2:3", "3:4", "4:3", "4:5", "5:4", "9:16", "16:9", "21:9"}

\* The timeout runGenerate hands to NewClient, in minutes.
ClientTimeoutMinutes == 2

\* Largest number of images in one answer of the remote.
MaxReturned == 2

RECURSIVE ExtFrom(_, _)
\* filepath.Ext: the suffix that begins at the last dot of the last element
\* of the path, empty when that element has no dot.
ExtFrom(path, i) ==
    IF i < 1 \/ path[i] = "/" THEN <<>>
    ELSE IF path[i] = "." THEN SubSeq(path, i, Len(path))
    ELSE ExtFrom(path, i - 1)

Ext(path) == ExtFrom(path, Len(path))

\* strings.TrimSuffix
TrimSuffix(s, suffix) ==
    IF Len(suffix) <= Len(s) /\ SubSeq(s, Len(s) - Len(suffix) + 1, Len(s)) = suffix
    THEN SubSeq(s, 1, Len(s) - Len(suffix))
    ELSE s

\* The path image number i of n is saved under: the output path itself for
\* a single image, the output path with "_<i>" put before its extension
\* otherwise.
savePath(output, i, n) ==
    IF n > 1
    THEN TrimSuffix(output, Ext(output)) \o <<"_">> \o Itoa(i) \o Ext(output)
    ELSE output

\* estimateDimensions
estimateDimensions(ratio) ==
    CASE ratio \in {"1:1", ""} -> <<1024, 1024>>
      [] ratio = "16:9" -> <<1024, 576>>
      [] ratio = "9:16" -> <<576, 1024>>
      [] ratio = "4:3" -> <<1024, 768>>
      [] ratio = "3:4" -> <<768, 1024>>
      [] ratio = "3:2" -> <<1024, 683>>
      [] ratio = "2:3" -> <<683, 1024>>
      [] ratio = "21:9" -> <<1024, 439>>
      [] OTHER -> <<1024, 1024>>

\* The output path of the runs explored.
OutputPath == <<"o", "u", "t", "/", "a", ".", "p", "n", "g">>

\* The flag values explored.
GenerateOpts ==
    [apiKey : {"", "key"}, count : {1, 11}, aspectRatio : {"1:1", "7:5"},
     noOverwrite : BOOLEAN, inputPath : {"", "photo.png"}, outputPath : {OutputPath}]

\* The pixel sizes of the images the remote returns.
ImageDims == { <<1024, 1024>>, <<1344, 768>> }

\* The paths a run with the given output path can write.
GeneratePaths(output) ==
    {output} \cup { savePath(output, i, n) : i \in 1..MaxReturned, n \in 1..MaxReturned }

\* The files before the run: each path holds nothing or an old file, and the
\* directory exists when a file in it does.
GenerateFiles(output) ==
    { f \in [dir : BOOLEAN, files : [GeneratePaths(output) -> {"absent", "old"}]] :
        (\E p \in GeneratePaths(output) : f.files[p] = "old") => f.dir }

\* What the remote does with the one request it gets: it answers with n
\* images, with a response that has no candidates, with an error, or never.
RemoteBehaviours ==
    { [answer |-> "images", n |-> n, text |-> <<>>, size |-> d] :
        n \in 0..MaxReturned, d \in ImageDims }
      \cup { [answer |-> "empty", n |-> 0, text |-> <<>>, size |-> <<0, 0>>],
             [answer |-> "silent", n |-> 0, text |-> <<>>, size |-> <<0, 0>>] }
      \cup { [answer |-> "error", n |-> 0, text |-> t, size |-> <<0, 0>>] : t \in ErrorTexts }

\* The request before it is built: no candidate count, the prompt as given.
NoRequest == [CandidateCount |-> 0, ratioInPrompt |-> FALSE]

\* The client and what the command has got from it so far: the timeout kept
\* in the client, the number of requests sent, the request, the images
\* received, the error returned, the code and message handed to the
\* formatter and the images reported as saved.
NoAnswer ==
    [timeout |-> 0, calls |-> 0, request |-> NoRequest, images |-> 0,
     error |-> [Code |-> "", Message |-> <<>>],
     shown |-> [Code |-> "", Message |-> <<>>],
     saved |-> <<>>]

InitGenerate ==
    /\ cmd = "generate"
    /\ pc = "start"
    /\ opts \in GenerateOpts
    /\ last = ""
    /\ src \in RemoteBehaviours
    /\ result = NoAnswer
    /\ err = ""
    /\ fs \in { f \in GenerateFiles(opts.outputPath) :
                   \A p \in DOMAIN f.files : p # opts.outputPath => f.files[p] = "absent" }

\* runGenerate up to the creation of the client: the key, the count, the
\* aspect ratio and, with --no-overwrite, the output path are checked.
RunGenerate ==
    /\ cmd = "generate"
    /\ pc = "start"
    /\ IF opts.apiKey = ""
       THEN pc' = "failed" /\ err' = "MISSING_API_KEY"
       ELSE IF opts.count < 1 \/ opts.count > 10
       THEN pc' = "failed" /\ err' = "INVALID_COUNT"
       ELSE IF opts.aspectRatio # "" /\ opts.aspectRatio \notin AspectRatios
       THEN pc' = "failed" /\ err' = "INVALID_ASPECT_RATIO"
       ELSE IF opts.noOverwrite /\ fs.files[opts.outputPath] # "absent"
       THEN pc' = "failed" /\ err' = "FILE_EXISTS"
       ELSE pc' = "client" /\ err' = ""
    /\ UNCHANGED <<cmd, opts, last, src, result, fs>>

\* gemini.NewClient(apiKey, modelName, 2*time.Minute): the timeout is kept in
\* the client; creating the SDK's client can fail.
CreateClient ==
    /\ cmd = "generate"
    /\ pc = "client"
    /\ \/ /\ result' = [result EXCEPT !.timeout = ClientTimeoutMinutes]
          /\ pc' = "mode"
          /\ err' = ""
       \/ /\ result' = result
          /\ pc' = "failed"
          /\ err' = "CLIENT_ERROR"
    /\ UNCHANGED <<cmd, opts, last, src, fs>>

\* The edit or generate branch up to the request: in edit mode the input is
\* looked up and read first; then GenerateContent is called with the
\* background context and a configuration that names the response
\* modalities only (its CandidateCount keeps the zero value); the aspect
\* ratio goes into the prompt in generate mode when it is not "1:1".
SendRequest ==
    /\ cmd = "generate"
    /\ pc = "mode"
    /\ \/ /\ opts.inputPath # ""
          /\ result' = result
          /\ pc' = "failed"
          /\ err' = "FILE_NOT_FOUND"
       \/ /\ opts.inputPath # ""
          /\ result' = [result EXCEPT !.error =
                           [Code |-> "", Message |-> <<"failed to read input image">>]]
          /\ pc' = "report"
          /\ err' = ""
       \/ /\ result' = [result EXCEPT
                           !.calls = @ + 1,
                           !.request = [CandidateCount |-> 0,
                                        ratioInPrompt |-> /\ opts.inputPath = ""
                                                          /\ opts.aspectRatio \notin {"", "1:1"}]]
          /\ pc' = "wait"
          /\ err' = ""
    /\ UNCHANGED <<cmd, opts, last, src, fs>>

\* GenerateContent returns: an error goes through classifyError, a response
\* through extractImages and the test for an empty list.
RemoteReturns ==
    /\ cmd = "generate"
    /\ pc = "wait"
    /\ src.answer # "silent"
    /\ CASE src.answer = "error" ->
              /\ result' = [result EXCEPT !.error = classifyError(src.text)]
              /\ pc' = "report"
         [] src.answer = "empty" ->
              /\ result' = [result EXCEPT !.error =
                               [Code |-> "", Message |-> <<"empty response from API">>]]
              /\ pc' = "report"
         [] src.answer = "images" /\ src.n = 0 ->
              /\ result' = [result EXCEPT !.error =
                               [Code |-> "", Message |-> <<"no images generated">>]]
              /\ pc' = "report"
         [] OTHER ->
              /\ result' = [result EXCEPT !.images = src.n]
              /\ pc' = "save"
    /\ UNCHANGED <<cmd, opts, last, src, err, fs>>

\* runGenerate's error branch: a GeminiError is shown with its own code and
\* message, any other error as GENERATION_FAILED with its text.
ReportError ==
    /\ cmd = "generate"
    /\ pc = "report"
    /\ result' = [result EXCEPT !.shown =
                     IF result.error.Code # "" THEN result.error
                     ELSE [Code |-> "GENERATION_FAILED", Message |-> result.error.Message]]
    /\ pc' = "failed"
    /\ err' = IF result.error.Code # "" THEN result.error.Code ELSE "GENERATION_FAILED"
    /\ UNCHANGED <<cmd, opts, last, src, fs>>

\* The files after the first k of n images are written and the write of
\* the next one (when k < n) has left its path holding `broken`.
FilesWritten(files, output, n, k, broken) ==
    [p \in DOMAIN files |->
        IF \E i \in 1..k : p = savePath(output, i, n) THEN "new"
        ELSE IF k < n /\ p = savePath(output, k + 1, n) /\ broken # "" THEN broken
        ELSE files[p]]

\* The entries of the first k of n images in the list of saved images: the
\* path and the estimated size.
SavedEntries(output, ratio, n, k) ==
    [i \in 1..k |-> [Path |-> savePath(output, i, n),
                     Width |-> estimateDimensions(ratio)[1],
                     Height |-> estimateDimensions(ratio)[2]]]

\* The loop that saves the images received: for each one SaveImage makes the
\* directory and writes the file, and the image is reported as saved with
\* the estimated size.  The loop ends at the first SaveImage that fails:
\* the directory cannot be made, or the write fails and leaves the path as
\* it was or holding part of the data.
SaveImages ==
    /\ cmd = "generate"
    /\ pc = "save"
    /\ LET n == result.images
           output == opts.outputPath
       IN  \/ /\ fs' = [dir |-> TRUE, files |-> FilesWritten(fs.files, output, n, n, "")]
              /\ result' = [result EXCEPT !.saved = SavedEntries(output, opts.aspectRatio, n, n)]
              /\ pc' = "done"
              /\ err' = ""
           \/ /\ ~fs.dir
              /\ fs' = fs
              /\ result' = result
              /\ pc' = "failed"
              /\ err' = "SAVE_FAILED"
           \/ \E k \in 0..(n - 1), broken \in {"", "partial"} :
              /\ fs' = [dir |-> TRUE, files |-> FilesWritten(fs.files, output, n, k, broken)]
              /\ result' = [result EXCEPT !.saved = SavedEntries(output, opts.aspectRatio, n, k)]
              /\ pc' = "failed"
              /\ err' = "SAVE_FAILED"
    /\ UNCHANGED <<cmd, opts, last, src>>

NextGenerate ==
    \/ RunGenerate
    \/ CreateClient
    \/ SendRequest
    \/ RemoteReturns
    \/ ReportError
    \/ SaveImages

SpecGenerate == InitGenerate /\ [][NextGenerate]_vars

\* The flag values explored for the saving of the images: counts inside and
\* outside 1..10, with and without --no-overwrite, in generate mode and in
\* edit mode.
SaveOpts ==
    [apiKey : {"key"}, count : {0, 1, 2, 11}, aspectRatio : {"1:1", "16:9"},
     noOverwrite : BOOLEAN, inputPath : {"", "photo.png"}, outputPath : {OutputPath}]

\* The start of a run that is followed through the saving of the images:
\* the remote answers with images or with an empty response, and any of
\* the paths the run can write may hold an old file.
InitSave ==
    /\ cmd = "generate"
    /\ pc = "start"
    /\ opts \in SaveOpts
    /\ last = ""
    /\ src \in { b \in RemoteBehaviours : b.answer \in {"images", "empty"} }
    /\ result = NoAnswer
    /\ err = ""
    /\ fs \in GenerateFiles(opts.outputPath)

SpecSave == InitSave /\ [][NextGenerate]_vars

----------------------------------------------------------------------------
(* Claims about the remote call.                                           *)

\* The codes of the classification and the fragments that select each, in
\* the order of the tests.
ClassCodes ==
    << [code |-> "INVALID_API_KEY", any |-> {"API key", "unauthorized", "401"}],
       [code |-> "QUOTA_EXCEEDED", any |-> {"quota", "429"}],
       [code |-> "RATE_LIMITED", any |-> {"rate limit"}],
       [code |-> "SAFETY_BLOCKED", any |-> {"safety", "blocked"}] >>

\* The classes whose test the text passes.
Matching(text) ==
    { k \in 1..Len(ClassCodes) :
        \E f \in ClassCodes[k].any : ContainsChars(Flatten(text), Chars(f)) }

\* The code of the first class that matches, API_ERROR when none does.
FirstMatch(text) ==
    IF Matching(text) = {} THEN "API_ERROR"
    ELSE ClassCodes[CHOOSE k \in Matching(text) : \A m \in Matching(text) : k <= m].code

\* The one message of each class other than API_ERROR.
ClassMessage(code) ==
    CASE code = "INVALID_API_KEY" -> "Invalid or unauthorized API key"
      [] code = "QUOTA_EXCEEDED" -> "API quota exceeded"
      [] code = "RATE_LIMITED" -> "Rate limit exceeded, please wait"
      [] code = "SAFETY_BLOCKED" -> "Content blocked by safety filters"

\* The command has shown the error the remote call returned.
RemoteErrorShown ==
    /\ cmd = "generate" /\ pc = "failed"
    /\ result.calls = 1 /\ src.answer = "error"

\* C17 as claimed: the error of the remote call is shown under the code of
\* the first matching class (API_ERROR when none matches) and with the text
\* the remote call returned.
C17_ClassifiedWithOriginalText ==
    RemoteErrorShown =>
        /\ result.shown.Code = FirstMatch(src.text)
        /\ result.shown.Message = src.text

\* C17 as amended: the error of the remote call is shown under the code of
\* the first matching class (API_ERROR when none matches); the code and the
\* message shown are those of the classified error, and the message is the
\* text the remote call returned for API_ERROR only, every other class having
\* one fixed message.
C17_ClassifiedFirstMatch ==
    RemoteErrorShown =>
        /\ result.shown.Code = FirstMatch(src.text)
        /\ result.shown = result.error
        /\ err = result.shown.Code
        /\ result.shown.Code = "API_ERROR" => result.shown.Message = src.text
        /\ result.shown.Code # "API_ERROR" =>
             result.shown.Message = <<ClassMessage(result.shown.Code)>>

\* An error text that holds both "rate limit" and "429" was shown as
\* QUOTA_EXCEEDED with the fixed message of that class.
C17_Witness ==
    /\ RemoteErrorShown
    /\ src.text = <<"rate limit", "429">>
    /\ result.shown.Code = "QUOTA_EXCEEDED"
    /\ result.shown.Message = <<"API quota exceeded">>

\* The invocation has ended.
Ended == pc \in {"done", "failed"}

\* C18: a generate or edit invocation sends at most one request and comes to
\* an end: while it has not ended, some step of it can be taken.
C18_OneCallThenEnds ==
    cmd = "generate" =>
        /\ result.calls <= 1
        /\ Ended \/ ENABLED NextGenerate

----------------------------------------------------------------------------
(* Inspection of an image's transparency: InspectTransparency.             *)
(* The pixels of the image are given in runs: [p, n] stands for n pixels   *)
(* in a row that all equal p.  The image is one row of pixels, so every    *)
(* pixel of it is an edge pixel (its y is bounds.Min.Y).                   *)

\* The alpha values of the pixels inspected.
InspectAlphas == {0, 127, 128, 254, 255}

\* The lengths of the runs.
RunLengths == {1, 99, 100}

\* Largest number of runs of an inspected image.
MaxRuns == 2

InspectInputs ==
    SeqsUpTo({ [p |-> [R |-> 255, G |-> 255, B |-> 255, A |-> a], n |-> n] :
                 a \in InspectAlphas, n \in RunLengths }, MaxRuns)

RECURSIVE inspectPixels(_, _, _)
\* The pixel loop of InspectTransparency over the runs from run i on: acc
\* holds hasAlpha, transparentCount and the number of pixels seen.
inspectPixels(runs, i, acc) ==
    IF i > Len(runs) THEN acc
    ELSE LET a8 == To8(RGBA16(runs[i].p).a)
             n == runs[i].n
         IN  inspectPixels(runs, i + 1,
                [hasAlpha |-> acc.hasAlpha \/ a8 < 255,
                 transparentCount |-> acc.transparentCount
                                        + (IF a8 < 255 /\ a8 < 128 THEN n ELSE 0),
                 totalPixels |-> acc.totalPixels + n])

\* The 8-bit colour under which the pixel loop counts an edge pixel.
edgeColor(p) ==
    [R |-> To8(RGBA16(p).r), G |-> To8(RGBA16(p).g), B |-> To8(RGBA16(p).b)]

RECURSIVE countOf(_, _, _)
\* colorCounts[c] after the pixel loop over the runs from run i on.
countOf(runs, i, c) ==
    IF i > Len(runs) THEN 0
    ELSE (IF edgeColor(runs[i].p) = c THEN runs[i].n ELSE 0) + countOf(runs, i + 1, c)

\* The colours the loop over colorCounts can end with.  The loop keeps the
\* first colour it meets whose count is above every count met before; a
\* range over a Go map visits the keys in an order that differs from run to
\* run, so any colour with the largest count can be the one kept.
dominantColors(runs) ==
    LET keys == { edgeColor(runs[i].p) : i \in 1..Len(runs) }
    IN  { c \in keys : \A d \in keys : countOf(runs, 1, d) <= countOf(runs, 1, c) }

UpperHexDigits == <<"0", "1", "2", "3", "4", "5", "6", "7", "8", "9", "A", "B", "C", "D", "E", "F">>

\* The %02X verb for a byte.
Hex02X(v) == <<UpperHexDigits[(v \div 16) + 1], UpperHexDigits[(v % 16) + 1]>>

\* dominantColorStr
dominantColorStr(c) ==
    IF c.R = 255 /\ c.G = 255 /\ c.B = 255 THEN <<"w", "h", "i", "t", "e">>
    ELSE IF c.R = 0 /\ c.G = 0 /\ c.B = 0 THEN <<"b", "l", "a", "c", "k">>
    ELSE <<"#">> \o Hex02X(c.R) \o Hex02X(c.G) \o Hex02X(c.B)

\* recommend with "at most 1%" in the place of "below 1%".
recommendAtMost(hasAlpha, transparentCount, totalPixels) ==
    IF ~hasAlpha THEN "no alpha channel"
    ELSE IF 100 * transparentCount <= totalPixels THEN "very few transparent pixels"
    ELSE "already has transparency"

\* The recommendation: transparentPercent is
\* float64(transparentCount) / float64(totalPixels) * 100, and it is below 1
\* exactly when 100 * transparentCount < totalPixels.
recommend(hasAlpha, transparentCount, totalPixels) ==
    IF ~hasAlpha THEN "no alpha channel"
    ELSE IF 100 * transparentCount < totalPixels THEN "very few transparent pixels"
    ELSE "already has transparency"

NoInspection ==
    [HasAlphaChannel |-> FALSE, transparentCount |-> 0, totalPixels |-> 0,
     DominantBackgroundColor |-> <<>>, Recommendation |-> ""]

InitInspect ==
    /\ cmd = "inspect"
    /\ pc = "start"
    /\ opts = <<>>
    /\ last = <<>>
    /\ src \in InspectInputs
    /\ result = NoInspection
    /\ err = ""
    /\ fs = [out |-> "absent", dir |-> FALSE]

\* runTransparentInspect up to its call of InspectTransparency.
RunTransparentInspect ==
    /\ cmd = "inspect"
    /\ pc = "start"
    /\ \/ pc' = "open" /\ err' = ""
       \/ pc' = "failed" /\ err' = "FILE_NOT_FOUND"
    /\ UNCHANGED <<cmd, opts, last, src, result, fs>>

\* os.Open and image.Decode.
OpenInspect ==
    /\ cmd = "inspect"
    /\ pc = "open"
    /\ \/ pc' = "inspect" /\ err' = ""
       \/ pc' = "failed" /\ err' = "failed to open image"
       \/ pc' = "failed" /\ err' = "failed to decode image"
    /\ UNCHANGED <<cmd, opts, last, src, result, fs>>

\* The pixel loop, the choice of the dominant colour and the
\* recommendation.
Inspect ==
    /\ cmd = "inspect"
    /\ pc = "inspect"
    /\ LET c == inspectPixels(src, 1, [hasAlpha |-> FALSE, transparentCount |-> 0,
                                       totalPixels |-> 0])
       IN  \E dominantColor \in dominantColors(src) :
             result' = [HasAlphaChannel |-> c.hasAlpha,
                      transparentCount |-> c.transparentCount,
                      totalPixels |-> c.totalPixels,
                      DominantBackgroundColor |-> dominantColorStr(dominantColor),
                      Recommendation |->
                          recommend(c.hasAlpha, c.transparentCount, c.totalPixels)]
    /\ pc' = "done"
    /\ UNCHANGED <<cmd, opts, last, src, err, fs>>

\* The command is run a second time on the same image; last keeps the
\* dominant colour the first run reported.
InspectAgain ==
    /\ cmd = "inspect"
    /\ pc = "done"
    /\ last = <<>>
    /\ last' = result.DominantBackgroundColor
    /\ result' = NoInspection
    /\ pc' = "start"
    /\ UNCHANGED <<cmd, opts, src, err, fs>>

NextInspect ==
    \/ RunTransparentInspect
    \/ OpenInspect
    \/ Inspect
    \/ InspectAgain

SpecInspect == InitInspect /\ [][NextInspect]_vars

----------------------------------------------------------------------------
(* Claims about inspection.                                                *)

RECURSIVE PixelsWhere(_, _)
\* The number of pixels of the runs whose alpha is below the limit.
PixelsWhere(runs, limit) ==
    IF runs = <<>> THEN 0
    ELSE (IF Head(runs).p.A < limit THEN Head(runs).n ELSE 0)
           + PixelsWhere(Tail(runs), limit)

Inspected == cmd = "inspect" /\ pc = "done"

\* C19: has_alpha_channel is true exactly when some pixel has alpha below
\* 255; the recommendation is the no-alpha one when the flag is false, the
\* very-few one when the flag is true and fewer than 1% of the pixels have
\* alpha below 128, and the already-transparent one otherwise.
C19_FlagAndRecommendation ==
    Inspected =>
        LET some == PixelsWhere(src, 255) > 0
            low == PixelsWhere(src, 128)
            all == PixelsWhere(src, 256)
        IN  /\ result.HasAlphaChannel = some
            /\ result.Recommendation =
                 (CASE ~some -> "no alpha channel"
                    [] some /\ 100 * low < all -> "very few transparent pixels"
                    [] OTHER -> "already has transparency")

\* An image of 101 pixels of which one is transparent: the flag is set and
\* the very-few recommendation is given.
C19_Witness ==
    /\ Inspected
    /\ result.totalPixels = 101 /\ result.transparentCount = 1
    /\ result.HasAlphaChannel
    /\ result.Recommendation = "very few transparent pixels"

----------------------------------------------------------------------------
(* Claims about the background of the canvas.                              *)

\* The colour the claim gives the canvas for a --background value.
ClaimedBackground(bg) ==
    CASE ToLower(bg) = <<"t", "r", "a", "n", "s", "p", "a", "r", "e", "n", "t">> \/ bg = <<>> -> [R |-> 0, G |-> 0, B |-> 0, A |-> 0]
      [] ToLower(bg) = <<"w", "h", "i", "t", "e">> -> [R |-> 255, G |-> 255, B |-> 255, A |-> 255]
      [] ToLower(bg) = <<"b", "l", "a", "c", "k">> -> [R |-> 0, G |-> 0, B |-> 0, A |-> 255]
      [] OTHER ->
           LET hex == IF Head(bg) = "#" THEN Tail(bg) ELSE bg IN
           IF Len(hex) = 6 /\ \A i \in 1..6 : IsHexDigit(hex[i])
           THEN [R |-> 16 * HexVal(hex[1]) + HexVal(hex[2]),
                 G |-> 16 * HexVal(hex[3]) + HexVal(hex[4]),
                 B |-> 16 * HexVal(hex[5]) + HexVal(hex[6]),
                 A |-> 255]
           ELSE [R |-> 0, G |-> 0, B |-> 0, A |-> 0]

\* The canvas positions that no input was drawn over.
Uncovered == { p \in Grid(result.w, result.h) : \A i \in 1..Len(src) : ~InRect(p, result.at[i]) }

\* C20: once the canvas is composed, every pixel of it that no input covers
\* has the colour of the --background value: alpha zero for "transparent",
\* for the empty value and for a value that does not parse, opaque white and
\* black for "white" and "black", the opaque parsed colour for a hexadecimal
\* value.
C20_BackgroundKept ==
    (cmd = "combine" /\ pc \in {"mkdir", "create", "encode", "done"})
        => \A p \in Uncovered :
              result.px[p] = [from |-> 0, c |-> ClaimedBackground(opts.Background)]

\* Three inputs in a grid of two columns on the background "#ff0000": the
\* fourth cell is empty and red.
C20_Witness ==
    /\ cmd = "combine" /\ pc = "done"
    /\ opts.Direction = "grid" /\ opts.Background = <<"#", "f", "f", "0", "0", "0", "0">>
    /\ Len(src) = 3 /\ result.cols = 2
    /\ Uncovered # {}
    /\ \A p \in Uncovered : result.px[p].c = [R |-> 255, G |-> 0, B |-> 0, A |-> 255]

----------------------------------------------------------------------------
(* Claims about the target colour of the chroma-key pass.                  *)

\* The string after one optional leading "#".
AfterHash(s) == IF s # <<>> /\ Head(s) = "#" THEN Tail(s) ELSE s

\* The string is exactly six hexadecimal digits.
SixHexDigits(s) == Len(s) = 6 /\ \A i \in 1..6 : IsHexDigit(s[i])

\* The colour the claim resolves a --color value to (the two names taken in
\* any letter case), ok being FALSE when the claim has the value refused.
ClaimedTarget(s) ==
    IF ToLower(s) = <<"w", "h", "i", "t", "e">> THEN [ok |-> TRUE, R |-> 255, G |-> 255, B |-> 255]
    ELSE IF ToLower(s) = <<"b", "l", "a", "c", "k">> THEN [ok |-> TRUE, R |-> 0, G |-> 0, B |-> 0]
    ELSE IF SixHexDigits(AfterHash(s))
    THEN [ok |-> TRUE,
          R |-> 16 * HexVal(AfterHash(s)[1]) + HexVal(AfterHash(s)[2]),
          G |-> 16 * HexVal(AfterHash(s)[3]) + HexVal(AfterHash(s)[4]),
          B |-> 16 * HexVal(AfterHash(s)[5]) + HexVal(AfterHash(s)[6])]
    ELSE [ok |-> FALSE, R |-> 0, G |-> 0, B |-> 0]

\* The pass has gone beyond the resolution of the target colour.
ColourResolved == cmd = "chroma" /\ pc \notin {"start", "color"} /\ err \notin {"FILE_NOT_FOUND", "INVALID_TOLERANCE"}

C21_WitnessHex ==
    /\ cmd = "chroma" /\ pc = "done"
    /\ opts.Color = <<"C", "8", "6", "4", "3", "2">> /\ opts.Tolerance = 0
    /\ \E i \in 1..Len(src.px) :
          /\ src.px[i] = [R |-> 200, G |-> 100, B |-> 50, A |-> 255]
          /\ result[i].A = 0

----------------------------------------------------------------------------
(* Claims about the images a generate run writes.                          *)

\* The paths that hold an image written by the run.
Written == { p \in DOMAIN fs.files : fs.files[p] = "new" }

\* The paths the claim has a run with --count N write.
ClaimedPaths(output, n) == { savePath(output, i, n) : i \in 1..n }

\* C22: a count outside 1..10 is rejected before any request is sent; a
\* count N within 1..10 is carried by the request, and a run that succeeds
\* has written N files: the output path for N = 1, the paths numbered 1..N
\* otherwise.
C22_CountImagesWritten ==
    cmd = "generate" =>
        /\ (opts.count < 1 \/ opts.count > 10) => result.calls = 0
        /\ result.calls > 0 => result.request.CandidateCount = opts.count
        /\ pc = "done" => /\ Cardinality(Written) = opts.count
                          /\ Written = ClaimedPaths(opts.outputPath, opts.count)

\* C22, the part about the count's range alone: a count outside 1..10 ends
\* the run with INVALID_COUNT and no request is sent.
C22_CountOutOfRangeRejected ==
    (cmd = "generate" /\ pc # "start" /\ opts.apiKey # ""
       /\ (opts.count < 1 \/ opts.count > 10))
        => pc = "failed" /\ err = "INVALID_COUNT" /\ result.calls = 0

\* C23: with --no-overwrite no step of a generate run replaces a file that
\* was there when the run started, whichever of its paths the file is under
\* (the output path or one of the numbered paths), and a run that finds such
\* a file ends with FILE_EXISTS before any request is sent.
C23_NoOverwriteKeepsFiles ==
    [][(cmd = "generate" /\ opts.noOverwrite) =>
          /\ \A p \in DOMAIN fs.files : fs.files[p] = "old" => fs'.files[p] = "old"
          /\ (pc = "start" /\ pc' = "failed" /\ err' = "FILE_EXISTS") => result'.calls = 0]_vars

\* C23, for the output path alone: with --no-overwrite an old file under the
\* output path itself is never replaced.
C23_OutputPathKept ==
    [][(cmd = "generate" /\ opts.noOverwrite) =>
          (fs.files[opts.outputPath] = "old" => fs'.files[opts.outputPath] = "old")]_vars

----------------------------------------------------------------------------
(* The command line as a whole: the root command's PersistentPreRun, the   *)
(* Formatter, and every run function as the sequence of its steps.  A step *)
(* is [op, code]: a test that ends the run with the error `code`, the      *)
(* creation of the client, the call of the remote, a write to the file     *)
(* system, the working out of a path, or a call of the Formatter.  Here opts holds the global flags   *)
(* and the environment, src the steps of the run function for the          *)
(* arguments given, and result the formatter, the position in the steps,   *)
(* the standard output and what the run has done so far.                   *)

EnvNames == {"GEMINI_API_KEY", "NANOBANANA_API_KEY", "GOOGLE_API_KEY"}

\* The key with GOOGLE_API_KEY looked up before the other two variables.
resolveAPIKeyGoogleFirst(flag, env) ==
    IF flag # "" THEN flag
    ELSE IF env["GOOGLE_API_KEY"] # "" THEN env["GOOGLE_API_KEY"]
    ELSE IF env["GEMINI_API_KEY"] # "" THEN env["GEMINI_API_KEY"]
    ELSE env["NANOBANANA_API_KEY"]

\* PersistentPreRun's three tests: the flag's value when it is not empty,
\* else the first of the three variables that is not empty.
resolveAPIKey(flag, env) ==
    IF flag # "" THEN flag
    ELSE IF env["GEMINI_API_KEY"] # "" THEN env["GEMINI_API_KEY"]
    ELSE IF env["NANOBANANA_API_KEY"] # "" THEN env["NANOBANANA_API_KEY"]
    ELSE env["GOOGLE_API_KEY"]

\* What standard output holds: Response objects and lines of text.
JSONResponse(success, code) == [kind |-> "response", success |-> success, code |-> code]
TextLine(what) == [kind |-> "line", success |-> FALSE, code |-> what]

\* Formatter.Success, Error, Progress and ImageSaved, by what they add to
\* standard output (in text mode Error writes to standard error).
FormatterSuccess(f, out) ==
    IF f.JSONMode THEN Append(out, JSONResponse(TRUE, ""))
    ELSE IF ~f.Quiet THEN Append(out, TextLine("Success"))
    ELSE out

FormatterError(f, out, code) ==
    IF f.JSONMode THEN Append(out, JSONResponse(FALSE, code)) ELSE out

FormatterProgress(f, out) ==
    IF f.JSONMode \/ f.Quiet THEN out ELSE Append(out, TextLine("progress"))

FormatterImageSaved(f, out) ==
    IF f.JSONMode \/ f.Quiet THEN out ELSE Append(out, TextLine("Saved"))

Step(op, code) == [op |-> op, code |-> code]

RECURSIVE Repeat(_, _)
\* The steps of a loop body, n times over.
Repeat(body, n) == IF n = 0 THEN <<>> ELSE body \o Repeat(body, n - 1)

\* runGenerate, for a remote that returns n images.
runGenerateSteps(edit, n) ==
    << Step("key", "MISSING_API_KEY"), Step("check", "INVALID_COUNT"),
       Step("check", "INVALID_ASPECT_RATIO"), Step("check", "FILE_EXISTS"),
       Step("client", "CLIENT_ERROR"), Step("progress", "") >>
    \o (IF edit
        THEN << Step("check", "FILE_NOT_FOUND"), Step("progress", ""),
                Step("check", "GENERATION_FAILED") >>
        ELSE <<>>)
    \o << Step("call", "") >>
    \o Repeat(<< Step("write", "SAVE_FAILED"), Step("saved", "") >>, n)
    \o << Step("success", "") >>

\* runIcon, for n sizes.
runIconSteps(n) ==
    << Step("key", "MISSING_API_KEY"), Step("check", "INVALID_SIZE"),
       Step("check", "INVALID_STYLE"), Step("client", "CLIENT_ERROR"),
       Step("progress", ""), Step("call", ""),
       Step("write", "DIR_ERROR"), Step("write", "SAVE_FAILED") >>
    \o Repeat(<< Step("progress", ""), Step("write", "RESIZE_FAILED"), Step("saved", "") >>, n)
    \o << Step("success", "") >>

\* runPattern
runPatternSteps ==
    << Step("key", "MISSING_API_KEY"), Step("check", "INVALID_SIZE"),
       Step("check", "INVALID_TYPE"), Step("check", "INVALID_STYLE"),
       Step("client", "CLIENT_ERROR"), Step("progress", ""), Step("call", ""),
       Step("write", "SAVE_FAILED"), Step("saved", ""), Step("success", "") >>

\* runTransform
runTransformSteps ==
    << Step("check", "FILE_NOT_FOUND"), Step("check", "NO_OPERATION"),
       Step("check", "INVALID_ROTATION"), Step("progress", ""),
       Step("write", "TRANSFORM_FAILED"), Step("saved", ""), Step("success", "") >>

\* runCombine
runCombineSteps ==
    << Step("check", "INVALID_PATTERN"), Step("check", "FILE_NOT_FOUND"),
       Step("check", "NOT_ENOUGH_IMAGES"), Step("check", "INVALID_DIRECTION"),
       Step("check", "INVALID_GAP"), Step("progress", ""),
       Step("write", "COMBINE_FAILED"), Step("saved", ""), Step("success", "") >>

\* runTransparentMake
runTransparentMakeSteps ==
    << Step("check", "FILE_NOT_FOUND"), Step("path", ""), Step("check", "INVALID_TOLERANCE"),
       Step("progress", ""), Step("write", "TRANSPARENCY_FAILED"),
       Step("saved", ""), Step("success", "") >>

\* runTransparentInspect
runTransparentInspectSteps ==
    << Step("check", "FILE_NOT_FOUND"), Step("check", "INSPECTION_FAILED"),
       Step("report", "") >>

\* The version command.
versionSteps == << Step("report", "") >>

\* The commands with the run functions their arguments can lead to.
CommandRuns ==
    { <<"generate", runGenerateSteps(e, n)>> : e \in BOOLEAN, n \in 1..MaxReturned }
      \cup { <<"icon", runIconSteps(n)>> : n \in 1..MaxReturned }
      \cup { <<"pattern", runPatternSteps>>, <<"transform", runTransformSteps>>,
             <<"combine", runCombineSteps>>,
             <<"transparent make", runTransparentMakeSteps>>,
             <<"transparent inspect", runTransparentInspectSteps>>,
             <<"version", versionSteps>> }

\* The codes a failed call of the remote is reported with.
CallCodes ==
    {"INVALID_API_KEY", "QUOTA_EXCEEDED", "RATE_LIMITED", "SAFETY_BLOCKED", "API_ERROR",
     "GENERATION_FAILED"}

\* The global flags and the environment explored: each variable is unset or
\* holds a key of its own.
GlobalOpts ==
    { [flag |-> k, apiKey |-> k, env |-> e, json |-> j, quiet |-> q] :
        k \in {"", "flag key"},
        e \in { v \in [EnvNames -> {""} \cup EnvNames] : \A name \in EnvNames : v[name] \in {"", name} },
        j \in BOOLEAN, q \in BOOLEAN }

NoOutput ==
    [f |-> [JSONMode |-> FALSE, Quiet |-> FALSE], at |-> 1, stdout |-> <<>>,
     client |-> FALSE, calls |-> 0, writes |-> 0, exit |-> -1]

InitOutput ==
    /\ \E run \in CommandRuns, silent \in BOOLEAN :
          /\ cmd = run[1]
          /\ src = [steps |-> run[2], silent |-> silent]
    /\ pc = "pre"
    /\ opts \in GlobalOpts
    /\ last = ""
    /\ result = NoOutput
    /\ err = ""
    /\ fs = [out |-> "absent", dir |-> FALSE]

\* The root command's PersistentPreRun: the formatter is made from the
\* flags and the key is looked up.
PersistentPreRun ==
    /\ pc = "pre"
    /\ opts' = [opts EXCEPT !.apiKey = resolveAPIKey(opts.apiKey, opts.env)]
    /\ result' = [result EXCEPT !.f = [JSONMode |-> opts.json, Quiet |-> opts.quiet]]
    /\ pc' = "run"
    /\ UNCHANGED <<cmd, last, src, err, fs>>

\* The step the run function is at.
AtStep(op) == pc = "run" /\ result.at <= Len(src.steps) /\ src.steps[result.at].op = op

\* The run function goes on to its next step with the output and the
\* record of what it has done as given.
GoOn(r) ==
    /\ result' = [r EXCEPT !.at = @ + 1]
    /\ pc' = "run"
    /\ err' = ""

\* f.Error(command, code, ...) followed by the return of an error, which
\* main turns into exit status 1.
ReturnError(r, code) ==
    /\ result' = [r EXCEPT !.stdout = FormatterError(r.f, r.stdout, code), !.exit = 1]
    /\ pc' = "returned"
    /\ err' = code

\* The test of the key at the start of runGenerate, runIcon and runPattern.
KeyStep ==
    /\ AtStep("key")
    /\ IF opts.apiKey = "" THEN ReturnError(result, "MISSING_API_KEY") ELSE GoOn(result)
    /\ UNCHANGED <<cmd, opts, last, src, fs>>

\* A test of a flag, an argument or an input: it passes, or it ends the run
\* with its error.
CheckStep ==
    /\ AtStep("check")
    /\ \/ GoOn(result)
       \/ ReturnError(result, src.steps[result.at].code)
    /\ UNCHANGED <<cmd, opts, last, src, fs>>

\* runTransparentMake works out its output path: for an input path of
\* fewer than four characters, without -o and --overwrite, the slice
\* expression panics and the process ends with status 2, nothing having
\* been handed to the formatter.
PathStep ==
    /\ AtStep("path")
    /\ \/ GoOn(result)
       \/ /\ result' = [result EXCEPT !.exit = 2]
          /\ pc' = "panicked"
          /\ err' = "slice bounds out of range"
    /\ UNCHANGED <<cmd, opts, last, src, fs>>

\* gemini.NewClient
ClientStep ==
    /\ AtStep("client")
    /\ \/ GoOn([result EXCEPT !.client = TRUE])
       \/ ReturnError(result, "CLIENT_ERROR")
    /\ UNCHANGED <<cmd, opts, last, src, fs>>

\* GenerateImage or EditImage: one request, to which the remote answers
\* with images or with an error, unless it never answers.
CallStep ==
    /\ AtStep("call")
    /\ ~src.silent
    /\ \/ GoOn([result EXCEPT !.calls = @ + 1])
       \/ \E code \in CallCodes : ReturnError([result EXCEPT !.calls = @ + 1], code)
    /\ UNCHANGED <<cmd, opts, last, src, fs>>

\* A step that writes a file or makes a directory: it does, or it fails
\* before or after having written something.
WriteStep ==
    /\ AtStep("write")
    /\ \/ GoOn([result EXCEPT !.writes = @ + 1])
       \/ \E written \in {0, 1} :
             ReturnError([result EXCEPT !.writes = @ + written], src.steps[result.at].code)
    /\ UNCHANGED <<cmd, opts, last, src, fs>>

\* f.Progress(...)
ProgressStep ==
    /\ AtStep("progress")
    /\ GoOn([result EXCEPT !.stdout = FormatterProgress(result.f, result.stdout)])
    /\ UNCHANGED <<cmd, opts, last, src, fs>>

\* f.ImageSaved(...)
ImageSavedStep ==
    /\ AtStep("saved")
    /\ GoOn([result EXCEPT !.stdout = FormatterImageSaved(result.f, result.stdout)])
    /\ UNCHANGED <<cmd, opts, last, src, fs>>

\* f.Success(...) followed by the return of nil.
SuccessStep ==
    /\ AtStep("success")
    /\ result' = [result EXCEPT !.stdout = FormatterSuccess(result.f, result.stdout),
                                !.exit = 0]
    /\ pc' = "returned"
    /\ err' = ""
    /\ UNCHANGED <<cmd, opts, last, src, fs>>

\* The end of runTransparentInspect and of the version command: f.Success
\* in JSON mode, lines printed with fmt.Printf otherwise.
ReportStep ==
    /\ AtStep("report")
    /\ result' = [result EXCEPT
                     !.stdout = IF result.f.JSONMode
                                THEN FormatterSuccess(result.f, result.stdout)
                                ELSE Append(result.stdout, TextLine("text")),
                     !.exit = 0]
    /\ pc' = "returned"
    /\ err' = ""
    /\ UNCHANGED <<cmd, opts, last, src, fs>>

NextOutput ==
    \/ PersistentPreRun
    \/ KeyStep
    \/ CheckStep
    \/ PathStep
    \/ ClientStep
    \/ CallStep
    \/ WriteStep
    \/ ProgressStep
    \/ ImageSavedStep
    \/ SuccessStep
    \/ ReportStep

SpecOutput == InitOutput /\ [][NextOutput]_vars

----------------------------------------------------------------------------
(* Claims about the API key.                                               *)

\* The key the claim has the run use.
ClaimedKey ==
    IF opts.flag # "" THEN opts.flag
    ELSE IF opts.env["GEMINI_API_KEY"] # "" THEN opts.env["GEMINI_API_KEY"]
    ELSE IF opts.env["NANOBANANA_API_KEY"] # "" THEN opts.env["NANOBANANA_API_KEY"]
    ELSE IF opts.env["GOOGLE_API_KEY"] # "" THEN opts.env["GOOGLE_API_KEY"]
    ELSE ""

\* C24: the key is the --api-key flag if not empty, else GEMINI_API_KEY,
\* else NANOBANANA_API_KEY, else GOOGLE_API_KEY; when all four are empty,
\* generate, icon and pattern end with MISSING_API_KEY, no client having
\* been created, no call made and nothing written; with a key they never
\* report MISSING_API_KEY.
C24_KeyPrecedence ==
    (cmd \in {"generate", "icon", "pattern"} /\ pc \in {"run", "returned"}) =>
        /\ opts.apiKey = ClaimedKey
        /\ ClaimedKey = "" =>
              /\ ~result.client /\ result.calls = 0 /\ result.writes = 0
              /\ pc = "run" => result.at = 1
              /\ pc = "returned" => err = "MISSING_API_KEY" /\ result.exit = 1
        /\ ClaimedKey # "" => err # "MISSING_API_KEY"

\* An icon run with no key anywhere has ended with MISSING_API_KEY.
C24_Witness ==
    /\ cmd = "icon" /\ pc = "returned" /\ err = "MISSING_API_KEY"
    /\ opts.flag = "" /\ \A name \in EnvNames : opts.env[name] = ""
    /\ ~result.client /\ result.calls = 0 /\ result.writes = 0

\* A pattern run without the flag and without GEMINI_API_KEY has called the
\* remote with the key of NANOBANANA_API_KEY although GOOGLE_API_KEY is set.
C24_WitnessPrecedence ==
    /\ cmd = "pattern" /\ result.calls = 1
    /\ opts.flag = "" /\ opts.env["GEMINI_API_KEY"] = ""
    /\ opts.env["GOOGLE_API_KEY"] # ""
    /\ opts.apiKey = "NANOBANANA_API_KEY"

----------------------------------------------------------------------------
(* Claims about the output path of transparent make.                       *)

\* The path the claim gives a run without -o and --overwrite.
ClaimedDefaultPath(inputPath) ==
    IF Len(inputPath) >= 4 /\ SubSeq(inputPath, Len(inputPath) - 3, Len(inputPath)) = <<".", "p", "n", "g">>
    THEN SubSeq(inputPath, 1, Len(inputPath) - 4) \o <<"_", "t", "r", "a", "n", "s", "p", "a", "r", "e", "n", "t", ".", "p", "n", "g">>
    ELSE inputPath \o <<"_", "t", "r", "a", "n", "s", "p", "a", "r", "e", "n", "t", ".", "p", "n", "g">>

\* The run is beyond the point where the output path is worked out, without
\* -o and without --overwrite.
DefaultPathTaken ==
    /\ cmd = "chroma" /\ pc # "start" /\ err # "FILE_NOT_FOUND"
    /\ opts.Output = <<>> /\ ~opts.Overwrite

\* C25: without -o and --overwrite, for every path of an existing input
\* (of any length), the output path is the input path with a trailing
\* ".png" replaced by "_transparent.png", or with "_transparent.png"
\* appended when there is none, and it is never the input path.
C25_DefaultOutputPath ==
    DefaultPathTaken =>
        /\ pc # "panicked"
        /\ makeOutputPath(opts).path = ClaimedDefaultPath(opts.Input)
        /\ makeOutputPath(opts).path # opts.Input

\* C25, for the paths of four characters and more alone.
C25_DefaultOutputPathLong ==
    (DefaultPathTaken /\ Len(opts.Input) >= 4) =>
        /\ pc # "panicked"
        /\ makeOutputPath(opts).path = ClaimedDefaultPath(opts.Input)
        /\ makeOutputPath(opts).path # opts.Input

----------------------------------------------------------------------------
(* Claims about the range of the tolerance.                                *)

\* C26: at tolerance 100 every pixel is within tolerance of every target
\* colour, so every pixel of the result is transparent.
C26_FullToleranceKeysAll ==
    (Keyed /\ opts.Tolerance = 100) =>
        \A i \in 1..Len(src.px) : result[i].A = 0

\* C26, as far as it goes: at tolerance 100 a pixel is made transparent when
\* the mean of its squared channel differences from the target is at most
\* 255, that is, within about 16 levels per channel.
C26_FullToleranceKeysNear ==
    (Keyed /\ opts.Tolerance = 100) =>
        \A i \in 1..Len(src.px) :
            LET p == result[i] IN
            (p.R - TargetColor.R) * (p.R - TargetColor.R)
              + (p.G - TargetColor.G) * (p.G - TargetColor.G)
              + (p.B - TargetColor.B) * (p.B - TargetColor.B) <= 3 * 255
                => p.A = 0

----------------------------------------------------------------------------
(* Claims about the placement of the inputs on the canvas.                 *)

\* Rectangle r lies inside a canvas of w by h pixels.
InsideCanvas(r, w, h) == r.x >= 0 /\ r.y >= 0 /\ r.x + r.w <= w /\ r.y + r.h <= h

\* Two rectangles share no pixel.
Disjoint(r, q) ==
    \/ r.x + r.w <= q.x \/ q.x + q.w <= r.x
    \/ r.y + r.h <= q.y \/ q.y + q.h <= r.y

\* C27: in every layout, whatever the gap and the sizes of the inputs, each
\* input is drawn at its full size inside the canvas and no two inputs
\* overlap: every pixel of an input's rectangle shows that input.
C27_InsideAndDisjoint ==
    Laid =>
        /\ \A i \in 1..Len(src) :
              /\ result.at[i].w = src[i].w /\ result.at[i].h = src[i].h
              /\ InsideCanvas(result.at[i], result.w, result.h)
              /\ \A p \in Grid(result.w, result.h) :
                    InRect(p, result.at[i]) => result.px[p].from = i
        /\ \A i, j \in 1..Len(src) : i # j => Disjoint(result.at[i], result.at[j])

\* A grid of inputs of three different sizes with no gap between the cells.
C27_Witness ==
    /\ Laid /\ pc = "done"
    /\ opts.Direction = "grid" /\ opts.Gap = 0 /\ result.cols = 2
    /\ Len(src) = 3
    /\ src[1] # src[2] /\ src[2] # src[3] /\ src[1] # src[3]

----------------------------------------------------------------------------
(* Claims about the dominant background colour.                            *)

\* The names of the edge colours that occur most often.
MostFrequentEdgeColours == { dominantColorStr(c) : c \in dominantColors(src) }

\* C28: the dominant background colour reported is a most frequent colour
\* of the edge pixels, and a second inspection of the same image reports
\* the colour the first one reported, also when several colours occur
\* equally often.
C28_DominantDeterministic ==
    Inspected =>
        /\ result.DominantBackgroundColor \in MostFrequentEdgeColours
        /\ last # <<>> => result.DominantBackgroundColor = last

\* C28, without the repetition: the colour reported is one of the most
\* frequent colours of the edge pixels.
C28_DominantIsMostFrequent ==
    Inspected => result.DominantBackgroundColor \in MostFrequentEdgeColours

----------------------------------------------------------------------------
(* Claims about the size reported for a saved image.                       *)

\* C29: the width and height reported for each saved image are the pixel
\* dimensions of the file written for it, which holds the image as the
\* remote returned it, whatever its size.
C29_ReportedSizeIsFileSize ==
    cmd = "generate" =>
        \A i \in 1..Len(result.saved) :
            /\ fs.files[result.saved[i].Path] = "new"
            /\ <<result.saved[i].Width, result.saved[i].Height>> = src.size

\* C29, as far as it goes: every image reported as saved has been written
\* under the path reported, and the size reported is the one
\* estimateDimensions gives for the aspect ratio asked for.
C29_ReportedSizeIsEstimate ==
    cmd = "generate" =>
        \A i \in 1..Len(result.saved) :
            /\ fs.files[result.saved[i].Path] = "new"
            /\ <<result.saved[i].Width, result.saved[i].Height>>
                 = estimateDimensions(opts.aspectRatio)

----------------------------------------------------------------------------
(* Claims about the output in JSON mode.                                   *)

\* The run function has been entered with --json given.
RunInJSONMode == opts.json /\ pc # "pre"

\* C30: in JSON mode standard output never holds anything but Response
\* objects, and never more than one; a run that has not ended can go on;
\* and a run that has ended has written exactly one Response, whose success
\* field is true exactly when the exit status is 0.
C30_OneResponse ==
    RunInJSONMode =>
        /\ Len(result.stdout) <= 1
        /\ \A i \in 1..Len(result.stdout) : result.stdout[i].kind = "response"
        /\ pc = "run" => ENABLED NextOutput
        /\ pc # "run" =>
              /\ Len(result.stdout) = 1
              /\ result.stdout[1].success <=> result.exit = 0

\* C30, for the runs whose run function returns: exactly one Response is on
\* standard output, with success true exactly when nil was returned, and
\* nothing else was written there before.
C30_OneResponseOnReturn ==
    RunInJSONMode =>
        /\ Len(result.stdout) <= 1
        /\ \A i \in 1..Len(result.stdout) : result.stdout[i].kind = "response"
        /\ pc = "returned" =>
              /\ Len(result.stdout) = 1
              /\ result.stdout[1].success <=> result.exit = 0
              /\ result.stdout[1].success <=> err = ""

====
